---- MODULE Spec2Model ----
(***************************************************************************)
(* Shed.js: the delegation registry (class Event of src/src/dom.js) and    *)
(* the reconciler (class Dom of src/src/dom.js) as state machines.         *)
(***************************************************************************)
EXTENDS Integers, Sequences, FiniteSets, TLC

(***************************************************************************)
(* Bounds of the model.                                                    *)
(***************************************************************************)
\* handlers alive at the same time
MaxHandlers == 2
\* entries of a children list of the root vnode
MaxKids == 2
\* renderWithDiff calls on one container
MaxRenders == 2
\* renderWithDiff calls on one container holding a list
MaxListRenders == 3

(***************************************************************************)
(* The native tree as the registry sees it: a few nodes that the           *)
(* reconciler may insert (once, freshly created), and the selectors each   *)
(* of them matches.                                                        *)
(***************************************************************************)
Nodes == {"n1", "n2"}

\* Element.matches(selector): n1 is <li class="a">, n2 is <li>.
\* 'window' is a valid selector that matches no element of the page.
matches(el, selector) ==
    \/ selector = "li"
    \/ selector = ".a" /\ el = "n1"

\* document.querySelectorAll(selector) over the nodes now in the document
querySelectorAll(doc, selector) == {el \in doc : matches(el, selector)}

\* this._domEvents, this._winOrDocEvents, this._supportedEvents
\* (one representative of each list)
domEvents == {"click"}
winOrDocEvents == {"load"}
supportedEvents == domEvents \cup winOrDocEvents

\* what callers may pass to onEvent as (event, selector): two overlapping
\* selectors for an element event, a global event with the global sentinel,
\* and an event type outside the list
RegistrationArgs ==
    {<<"click", ".a">>, <<"click", "li">>, <<"load", "window">>, <<"bogus", "li">>}

VARIABLES
    peers,           \* two Event instances sharing the document's nodes
    handlers,        \* this._handlers: sequence of handler records
    processedItems,  \* this._processedItems: node -> set of event types
    initialized,     \* this._initialized
    observer,        \* this._observer: "none" (null), "created", "observing"
    dclHook,         \* the DOMContentLoaded fallback listener is waiting
    elListeners,     \* <<node, type>> -> number of native listeners this
                     \* registry has attached to the node for the type
    winListeners,    \* native listeners this registry attached to window,
                     \* in the order they were attached
    inDoc,           \* nodes now in the document
    pending,         \* the observer holds undelivered records with added nodes
    returnedIds,     \* the ids onEvent has returned so far
    invoked,         \* callbacks run by the last native event, in order
    last,            \* the last operation and its outcome
    container,       \* the native element the application renders into
    prevVTree,       \* the tree the application rendered last (null at first)
    renders,         \* renderWithDiff calls made on container
    call             \* a direct call of a static method of Dom: the method,
                     \* its arguments and, once it has returned, its result

vars == <<handlers, processedItems, initialized, observer, dclHook,
          elListeners, winListeners, inDoc, pending,
          returnedIds, invoked, last, container, prevVTree, renders, call,
          peers>>

domVars == <<container, prevVTree, renders>>
eventVars == <<handlers, processedItems, initialized, observer, dclHook,
               elListeners, winListeners, inDoc, pending,
               returnedIds, invoked, last>>

regVars == <<handlers, processedItems, initialized, observer,
             elListeners, winListeners>>

(***************************************************************************)
(* FrameworkError (src/src/errors.js)                                      *)
(***************************************************************************)
FrameworkError(module, code) ==
    [name |-> "FrameworkError", module |-> module, code |-> code]

NoError == [name |-> "", module |-> "", code |-> ""]

\* the record kept in `last`
Outcome(op, ret, err) == [op |-> op, ret |-> ret, err |-> err]

(***************************************************************************)
(* The registry's mutable parts, passed through the private helpers.       *)
(* A handler's callback is a function of its own; the model names it by    *)
(* the handler's position in this._handlers.  Two fields of a handler      *)
(* record are history: acked (removeEvent has returned true for the id     *)
(* this handler was given) and awaiting (when it was registered its         *)
(* selector matched no node and the MutationObserver was observing).       *)
(***************************************************************************)
Registry ==
    [handlers |-> handlers, processedItems |-> processedItems,
     elListeners |-> elListeners, winListeners |-> winListeners]

\* The closure created at dom.js:843 for the handler at position i.  owner is
\* the position of the handler it forwards to, 0 once that handler has left
\* this._handlers; `removed` and `destroyed` then record whether removeEvent
\* or destroy() took the handler away while the listener stayed attached.
winListenerOf(h, i) ==
    [event |-> h.event, owner |-> i, removed |-> FALSE, destroyed |-> FALSE]

\* el.addEventListener(event, domListener), el.removeEventListener(event, listener)
addEventListener(ls, el, event) == [ls EXCEPT ![<<el, event>>] = @ + 1]
removeEventListener(ls, el, event) ==
    [ls EXCEPT ![<<el, event>>] = IF @ > 0 THEN @ - 1 ELSE 0]

\* window.removeEventListener(event, listener), listener made for position i
removeWindowListener(ws, i) == SelectSeq(ws, LAMBDA w : w.owner # i)

\* _applyEventHandler without the test on the element-seen set: every handler
\* attaches a listener of its own to every node it matches
applyEventHandlerUnseen(R, i, doc) ==
    LET h == R.handlers[i] IN
    IF h.event \in winOrDocEvents /\ h.selector \in {"window", "document"}
    THEN [R EXCEPT !.handlers[i].windowListener = TRUE,
                   !.winListeners = Append(@, winListenerOf(h, i))]
    ELSE LET elements == querySelectorAll(doc, h.selector)
             fresh == {el \in elements : el \notin h.domListeners}
         IN [R EXCEPT
               !.processedItems =
                   [el \in Nodes |-> IF el \in fresh
                                     THEN R.processedItems[el] \cup {h.event}
                                     ELSE R.processedItems[el]],
               !.handlers[i].domListeners = @ \cup fresh,
               !.elListeners =
                   [k \in DOMAIN @ |-> IF k[1] \in fresh /\ k[2] = h.event
                                       THEN addEventListener(@, k[1], k[2])[k]
                                       ELSE @[k]]]

\* Event._applyEventHandler(handler), handler = R.handlers[i]
applyEventHandler(R, i, doc) ==
    LET h == R.handlers[i] IN
    IF h.event \in winOrDocEvents /\ h.selector \in {"window", "document"}
    THEN [R EXCEPT !.handlers[i].windowListener = TRUE,
                   !.winListeners = Append(@, winListenerOf(h, i))]
    ELSE LET elements == querySelectorAll(doc, h.selector)
             fresh == {el \in elements :
                          /\ el \notin h.domListeners
                          /\ h.event \notin R.processedItems[el]}
         IN [R EXCEPT
               !.processedItems =
                   [el \in Nodes |-> IF el \in fresh
                                     THEN R.processedItems[el] \cup {h.event}
                                     ELSE R.processedItems[el]],
               !.handlers[i].domListeners = @ \cup fresh,
               !.elListeners =
                   [k \in DOMAIN @ |-> IF k[1] \in fresh /\ k[2] = h.event
                                       THEN addEventListener(@, k[1], k[2])[k]
                                       ELSE @[k]]]

\* _cleanupHandler that only forgets the listeners (it clears the handler's
\* fields and detaches nothing)
cleanupHandlerForgets(R, i) ==
    [R EXCEPT !.handlers[i].windowListener = FALSE,
              !.handlers[i].domListeners = {}]

\* Event._cleanupHandler(handler), handler = R.handlers[i]: detaches what the
\* handler attached and clears its domListeners
cleanupHandler(R, i) ==
    LET h == R.handlers[i] IN
    [R EXCEPT
       !.winListeners = IF h.windowListener THEN removeWindowListener(@, i) ELSE @,
       !.elListeners =
           [k \in DOMAIN @ |-> IF k[1] \in h.domListeners /\ k[2] = h.event
                               THEN removeEventListener(@, k[1], k[2])[k]
                               ELSE @[k]],
       !.handlers[i].domListeners = {}]

\* the filter of the MutationObserver callback
rebound(h) ==
    /\ h.event \notin winOrDocEvents
    /\ h.selector # "window"
    /\ h.selector # "document"

\* the MutationObserver callback's loop over this._handlers, from index i
RECURSIVE reapply(_, _, _)
reapply(R, i, doc) ==
    IF i > Len(R.handlers) THEN R
    ELSE reapply(IF rebound(R.handlers[i]) THEN applyEventHandler(R, i, doc) ELSE R,
                 i + 1, doc)

\* destroy()'s loop: _cleanupHandler on every handler, from index i
RECURSIVE cleanupAll(_, _)
cleanupAll(R, i) ==
    IF i > Len(R.handlers) THEN R
    ELSE cleanupAll(cleanupHandler(R, i), i + 1)

\* the handler looked up by its position instead of its id
findIndexByPosition(hs, handlerId) ==
    IF handlerId + 1 <= Len(hs) THEN handlerId + 1 ELSE 0

\* this._handlers.findIndex(h => h.id === handlerId); 0 stands for -1
findIndex(hs, handlerId) ==
    LET hits == {i \in 1..Len(hs) : hs[i].id = handlerId} IN
    IF hits = {} THEN 0 ELSE CHOOSE i \in hits : \A j \in hits : i <= j

\* this._handlers.splice(index, 1)
splice(hs, index) ==
    [j \in 1..(Len(hs) - 1) |-> IF j < index THEN hs[j] ELSE hs[j + 1]]

\* the positions after splice(index, 1), for the listeners that name them
moved(ws, index, byDestroy) ==
    [j \in 1..Len(ws) |->
        IF ws[j].owner = index
        THEN [ws[j] EXCEPT !.owner = 0,
                           !.removed = ~byDestroy, !.destroyed = byDestroy]
        ELSE IF ws[j].owner > index THEN [ws[j] EXCEPT !.owner = @ - 1]
        ELSE ws[j]]

\* the calls one run of a domListener on el makes, in order
domListener(hs, el, event) ==
    LET hit(h) == h.event = event /\ matches(el, h.selector)
        RECURSIVE run(_)
        run(i) == IF i > Len(hs) THEN <<>>
                  ELSE (IF hit(hs[i])
                        THEN <<[callback |-> i, el |-> el,
                                removed |-> hs[i].acked, destroyed |-> FALSE]>>
                        ELSE <<>>) \o run(i + 1)
    IN run(1)

\* n runs of the same listener, one after the other
RECURSIVE times(_, _)
times(n, s) == IF n = 0 THEN <<>> ELSE s \o times(n - 1, s)

\* the calls the window listeners for an event make, in attachment order
RECURSIVE winListener(_, _)
winListener(ws, event) ==
    IF ws = <<>> THEN <<>>
    ELSE (IF Head(ws).event = event
          THEN <<[callback |-> Head(ws).owner, el |-> "window",
                  removed |-> Head(ws).removed, destroyed |-> Head(ws).destroyed]>>
          ELSE <<>>) \o winListener(Tail(ws), event)

(***************************************************************************)
(* Initial state of the registry: the state after `new Event()`.           *)
(***************************************************************************)
InitEvent ==
    /\ handlers = <<>>
    /\ processedItems = [el \in Nodes |-> {}]
    /\ initialized = TRUE
    /\ dclHook \in BOOLEAN           \* TRUE: document.body was missing
    /\ observer = IF dclHook THEN "created" ELSE "observing"
    /\ elListeners = [k \in Nodes \X supportedEvents |-> 0]
    /\ winListeners = <<>>
    /\ inDoc = {}
    /\ pending = FALSE
    /\ returnedIds = {}
    /\ invoked = <<>>
    /\ last = Outcome("new", -1, NoError)

ghostUnchanged == UNCHANGED returnedIds
docUnchanged == UNCHANGED <<inDoc, pending, dclHook>>

\* the registry's mutable parts after a helper ran
setRegistry(R) ==
    /\ handlers' = R.handlers
    /\ processedItems' = R.processedItems
    /\ elListeners' = R.elListeners
    /\ winListeners' = R.winListeners

(***************************************************************************)
(* onEvent(event, selector, callback)                                      *)
(***************************************************************************)
\* the record onEvent builds for its arguments
newHandler(event, selector) ==
    [id |-> Len(handlers), event |-> event, selector |-> selector,
     domListeners |-> {}, windowListener |-> FALSE,
     acked |-> FALSE,
     awaiting |-> querySelectorAll(inDoc, selector) = {} /\ observer = "observing"]

\* onEvent that tests the callback only after it stored and bound the record
onEventLateCheck(event, selector, callable) ==
    IF event \notin supportedEvents
    THEN /\ last' = Outcome("onEvent", -1,
                            FrameworkError("EVENT", "UNSUPPORTED_EVENT"))
         /\ invoked' = <<>>
         /\ UNCHANGED regVars /\ docUnchanged /\ ghostUnchanged
    ELSE /\ Len(handlers) < MaxHandlers
         /\ LET pushed == [Registry EXCEPT
                              !.handlers = Append(@, newHandler(event, selector))]
            IN setRegistry(applyEventHandler(pushed, Len(pushed.handlers), inDoc))
         /\ IF callable
            THEN /\ last' = Outcome("onEvent", Len(handlers), NoError)
                 /\ returnedIds' = returnedIds \cup {Len(handlers)}
            ELSE /\ last' = Outcome("onEvent", -1,
                                    FrameworkError("EVENT", "INVALID_CALLBACK"))
                 /\ returnedIds' = returnedIds
         /\ invoked' = <<>>
         /\ UNCHANGED <<initialized, observer>>
         /\ docUnchanged

onEvent(event, selector, callable) ==
    IF event \notin supportedEvents
    THEN /\ last' = Outcome("onEvent", -1,
                            FrameworkError("EVENT", "UNSUPPORTED_EVENT"))
         /\ invoked' = <<>>
         /\ UNCHANGED regVars /\ docUnchanged /\ ghostUnchanged
    ELSE IF ~callable
    THEN /\ last' = Outcome("onEvent", -1,
                            FrameworkError("EVENT", "INVALID_CALLBACK"))
         /\ invoked' = <<>>
         /\ UNCHANGED regVars /\ docUnchanged /\ ghostUnchanged
    ELSE /\ Len(handlers) < MaxHandlers
         /\ LET handler == newHandler(event, selector)
                pushed == [Registry EXCEPT !.handlers = Append(@, handler)]
            IN /\ setRegistry(applyEventHandler(pushed, Len(pushed.handlers), inDoc))
               /\ last' = Outcome("onEvent", handler.id, NoError)
               /\ returnedIds' = returnedIds \cup {handler.id}
         /\ invoked' = <<>>
         /\ UNCHANGED <<initialized, observer>>
         /\ docUnchanged

OnEvent ==
    /\ \E args \in RegistrationArgs, callable \in BOOLEAN :
          onEvent(args[1], args[2], callable)
    /\ UNCHANGED <<domVars, call, peers>>

(***************************************************************************)
(* removeEvent(handlerId)                                                  *)
(***************************************************************************)
\* ghost: the caller holding handlerId for a handler that stays registered
\* has been told that its handler was removed
acknowledge(hs, handlerId) ==
    [j \in 1..Len(hs) |-> IF hs[j].id = handlerId
                          THEN [hs[j] EXCEPT !.acked = TRUE] ELSE hs[j]]

removeEvent(handlerId) ==
    LET index == findIndex(handlers, handlerId) IN
    IF index = 0
    THEN /\ last' = Outcome("removeEvent", 0, NoError)
         /\ invoked' = <<>>
         /\ UNCHANGED regVars /\ docUnchanged /\ ghostUnchanged
    ELSE LET R == cleanupHandler(Registry, index) IN
         /\ setRegistry([R EXCEPT
                !.handlers = acknowledge(splice(R.handlers, index), handlerId),
                !.winListeners = moved(@, index, FALSE)])
         /\ last' = Outcome("removeEvent", 1, NoError)
         /\ invoked' = <<>>
         /\ UNCHANGED <<initialized, observer>>
         /\ docUnchanged /\ ghostUnchanged

RemoveEvent ==
    /\ \E handlerId \in 0..MaxHandlers : removeEvent(handlerId)
    /\ UNCHANGED <<domVars, call, peers>>

(***************************************************************************)
(* destroy()                                                               *)
(***************************************************************************)
\* this._handlers = []: every listener still attached has lost its handler
orphaned(ws) ==
    [j \in 1..Len(ws) |->
        IF ws[j].owner = 0 THEN ws[j]
        ELSE [ws[j] EXCEPT !.owner = 0, !.destroyed = TRUE]]

destroy ==
    LET R == cleanupAll(Registry, 1) IN
    /\ handlers' = <<>>
    /\ elListeners' = R.elListeners
    /\ winListeners' = orphaned(R.winListeners)
    /\ observer' = "none"
    /\ pending' = FALSE                 \* disconnect() drops the queued records
    /\ processedItems' = [el \in Nodes |-> {}]
    /\ initialized' = FALSE
    /\ last' = Outcome("destroy", Len(handlers), NoError)  \* ret: handlers torn down
    /\ invoked' = <<>>
    /\ UNCHANGED <<inDoc, dclHook, returnedIds>>

Destroy == destroy /\ UNCHANGED <<domVars, call, peers>>

(***************************************************************************)
(* The host: tree growth, its notification, and native events.             *)
(***************************************************************************)
\* the reconciler appends a freshly materialized node to the document
insertNode(el) ==
    /\ el \notin inDoc
    /\ inDoc' = inDoc \cup {el}
    /\ pending' = (pending \/ observer = "observing")
    /\ last' = Outcome("insert", -1, NoError)
    /\ invoked' = <<>>
    /\ UNCHANGED regVars /\ UNCHANGED dclHook /\ ghostUnchanged

InsertNode ==
    /\ \E el \in Nodes : insertNode(el)
    /\ UNCHANGED <<domVars, call, peers>>

\* the MutationObserver callback, run with the queued records
observerCallback ==
    /\ pending /\ observer = "observing"
    /\ setRegistry(reapply(Registry, 1, inDoc))
    /\ pending' = FALSE
    /\ last' = Outcome("notify", -1, NoError)
    /\ invoked' = <<>>
    /\ UNCHANGED <<initialized, observer, inDoc, dclHook>> /\ ghostUnchanged

ObserverCallback == observerCallback /\ UNCHANGED <<domVars, call, peers>>

\* the fallback listener of _initEventSystem, run at DOMContentLoaded
domContentLoaded ==
    /\ dclHook
    /\ dclHook' = FALSE
    /\ observer' = IF observer # "none" THEN "observing" ELSE observer
    /\ last' = Outcome("DOMContentLoaded", -1, NoError)
    /\ invoked' = <<>>
    /\ UNCHANGED <<handlers, processedItems, initialized, elListeners, winListeners,
                   inDoc, pending>>
    /\ ghostUnchanged

DomContentLoaded == domContentLoaded /\ UNCHANGED <<domVars, call, peers>>

\* a native event of type event reaches the listeners attached to el.
\* Notifications are delivered before the host starts the next event turn.
fire(el, event) ==
    /\ el \in inDoc
    /\ ~pending
    /\ invoked' = times(elListeners[<<el, event>>], domListener(handlers, el, event))
    /\ last' = Outcome("fire", -1, NoError)
    /\ UNCHANGED regVars /\ docUnchanged /\ ghostUnchanged

Fire ==
    /\ \E el \in Nodes, event \in domEvents : fire(el, event)
    /\ UNCHANGED <<domVars, call, peers>>

\* a global event of type event reaches the listeners attached to window
fireGlobal(event) ==
    /\ ~pending
    /\ invoked' = winListener(winListeners, event)
    /\ last' = Outcome("fire", -1, NoError)
    /\ UNCHANGED regVars /\ docUnchanged /\ ghostUnchanged

FireGlobal ==
    /\ \E event \in winOrDocEvents : fireGlobal(event)
    /\ UNCHANGED <<domVars, call, peers>>

(***************************************************************************)
(* The reconciler (class Dom).  JavaScript values are tagged records:      *)
(* strings, numbers, null, functions, plain objects and vnodes.  Native    *)
(* nodes are records with a nodeType: 3 for a Text node, 1 for an element. *)
(* The vnodes of this model are well formed (every entry of a children     *)
(* list is an element vnode, a string, a number or null), so no statement  *)
(* of the code below throws.  Two fields of a native node are history:     *)
(* fresh (the node was created during the current call of the reconciler)  *)
(* and, on elements, writes (the keys the current call has written or      *)
(* reset on the element); both are cleared when the call has returned.     *)
(***************************************************************************)
Str(s) == [t |-> "str", v |-> s]
Num(n) == [t |-> "num", v |-> n]
Null == [t |-> "null"]
\* an object that is no vnode made by Dom.h: a style mapping, or an entry of
\* a children list without a tag
Obj(ref, map) == [t |-> "obj", ref |-> ref, v |-> map]
\* a boolean, and an array as an entry of a children list
Bool(b) == [t |-> "bool", v |-> b]
Arr(items) == [t |-> "arr", v |-> items]
\* a function, known by its name
Fn(name) == [t |-> "fn", v |-> name]
\* a === b: objects are identical when they are the same object
identical(a, b) ==
    IF a.t = "obj" /\ b.t = "obj" THEN a.ref = b.ref ELSE a = b

\* the typeof operator
typeof(x) ==
    CASE x.t = "str" -> "string"
      [] x.t = "num" -> "number"
      [] x.t = "fn" -> "function"
      [] x.t = "bool" -> "boolean"
      [] OTHER -> "object"

\* String(x), for the numbers 0..2
String(x) ==
    CASE x.t = "str" -> x.v
      [] x.t = "num" -> <<"0", "1", "2">>[x.v + 1]
      [] x.t = "null" -> "null"
      [] x.t = "bool" -> IF x.v THEN "true" ELSE "false"
      [] OTHER -> "[object Object]"

\* the truthiness of a value in a condition (!x is ~truthy(x))
truthy(x) ==
    CASE x.t = "null" -> FALSE
      [] x.t = "str" -> x.v # ""
      [] x.t = "num" -> x.v # 0
      [] x.t = "bool" -> x.v
      [] OTHER -> TRUE

\* objects used as maps: {}, obj[key] = value, delete obj[key]
EmptyMap == [k \in {} |-> Null]
put(m, key, value) ==
    [k \in DOMAIN m \cup {key} |-> IF k = key THEN value ELSE m[k]]
del(m, key) == [k \in DOMAIN m \ {key} |-> m[k]]

\* Object.keys(m): the model enumerates the keys in this fixed order
KeyOrder == <<"id", "title", "key", "className", "style", "checked", "onClick">>
keys(m) == SelectSeq(KeyOrder, LAMBDA k : k \in DOMAIN m)

\* key.startsWith('on'), key.toLowerCase(), `key in element` for the keys above
startsWithOn(key) == key \in {"onClick"}
toLowerCase(key) == IF key = "onClick" THEN "onclick" ELSE key
inElement(key) == key \in {"id", "title"}

\* document.createTextNode(data), document.createElement(tag)
Text(data) == [nodeType |-> 3, data |-> data, fresh |-> TRUE]
Element(tag) ==
    [nodeType |-> 1, tagName |-> tag, attributes |-> EmptyMap, props |-> EmptyMap,
     className |-> "", style |-> EmptyMap, on |-> EmptyMap, childNodes |-> <<>>,
     fresh |-> TRUE, writes |-> {}, thrown |-> FALSE]
\* no node: the call that was to return one threw an exception
Failure == [nodeType |-> 0]

\* a subtree with its history fields cleared
RECURSIVE settled(_)
settled(node) ==
    IF node.nodeType = 3 THEN [node EXCEPT !.fresh = FALSE]
    ELSE [node EXCEPT !.fresh = FALSE, !.writes = {}, !.thrown = FALSE,
                      !.childNodes = [i \in 1..Len(@) |-> settled(@[i])]]

\* Dom.createTextNode(text)
createTextNode(text) == Text(String(text))

\* an assignment that replaces the target's properties by the source's
assignReplacing(target, source) == source

\* Object.assign(target, source) on mappings
assign(target, source) ==
    [k \in DOMAIN target \cup DOMAIN source |->
        IF k \in DOMAIN source THEN source[k] ELSE target[k]]

\* Dom.setAttribute(element, key, value), element an HTMLElement
setAttribute(element, key, value) ==
    IF startsWithOn(key) /\ typeof(value) = "function"
    THEN [element EXCEPT !.on = put(@, toLowerCase(key), value),
                         !.writes = @ \cup {key}]
    ELSE CASE key = "className" -> [element EXCEPT !.className = String(value),
                                                   !.writes = @ \cup {key}]
           [] key = "style" ->
                IF typeof(value) = "object" /\ value.t = "obj"
                THEN [element EXCEPT !.style = assign(@, value.v),
                                     !.writes = @ \cup {key}]
                ELSE element
           [] OTHER ->
                IF inElement(key)
                THEN [element EXCEPT !.props = put(@, key, String(value)),
                                     !.writes = @ \cup {key}]
                ELSE [element EXCEPT !.attributes = put(@, key, String(value)),
                                     !.writes = @ \cup {key}]

\* Dom.createElement(tag, props) without children: setAttribute for every key
RECURSIVE setAll(_, _, _)
setAll(element, props, ks) ==
    IF ks = <<>> THEN element
    ELSE setAll(setAttribute(element, Head(ks), props[Head(ks)]), props, Tail(ks))

\* createElement that ignores the props
createElementBare(tag, props) == Element(tag)

createElement(tag, props) == setAll(Element(tag), props, keys(props))

\* Dom.h(tag, attrs, children), children a list
h(tag, attrs, children) ==
    [t |-> "vnode", tag |-> tag, attrs |-> attrs, children |-> children,
     key |-> IF "key" \in DOMAIN attrs /\ truthy(attrs["key"])
             THEN attrs["key"] ELSE Null]

\* Dom.appendChild(parent, child): child is null, an array, a string, a
\* number, a native node, a vnode, or anything else, which is ignored
RECURSIVE createFromVNode(_)
RECURSIVE appendChild(_, _)
RECURSIVE appendEach(_, _)
appendEach(parent, items) ==
    IF items = <<>> THEN parent
    ELSE appendEach(appendChild(parent, Head(items)), Tail(items))
appendChild(parent, child) ==
    IF "nodeType" \in DOMAIN child
    THEN [parent EXCEPT !.childNodes = Append(@, child)]
    ELSE IF child.t = "null" THEN parent
    ELSE IF child.t = "arr" THEN appendEach(parent, child.v)
    ELSE IF typeof(child) \in {"string", "number"}
    THEN [parent EXCEPT !.childNodes = Append(@, createTextNode(Str(String(child))))]
    ELSE IF child.t = "vnode"
    THEN LET node == createFromVNode(child) IN
         IF node = Failure THEN [parent EXCEPT !.thrown = TRUE]
         ELSE [parent EXCEPT !.childNodes = Append(@, node)]
    ELSE parent

\* Array.isArray(vnode.children): a vnode written by hand whose children is
\* a string and no list has no entries in children and the string in
\* childrenValue
isArray(vnode) == "childrenValue" \notin DOMAIN vnode

\* the forEach over vnode.children in createFromVNode; no node when the
\* materialization of a child throws
RECURSIVE appendChildren(_, _)
appendChildren(element, children) ==
    IF children = <<>> THEN element
    ELSE LET child == Head(children) IN
         IF child.t = "null" THEN appendChildren(element, Tail(children))
         ELSE IF typeof(child) \in {"string", "number"}
         THEN appendChildren(appendChild(element, createTextNode(child)),
                             Tail(children))
         ELSE LET node == createFromVNode(child) IN
              IF node = Failure THEN Failure
              ELSE appendChildren(appendChild(element, node), Tail(children))

\* Dom.createFromVNode(vnode), vnode a string, a number, a vnode, or an
\* object without a tag, for which it throws
createFromVNode(vnode) ==
    IF typeof(vnode) \in {"string", "number"}
    THEN createTextNode(Str(String(vnode)))
    ELSE IF vnode.t # "vnode" THEN Failure
    ELSE IF vnode.tag = "TEXT_NODE"
    THEN LET textContent == IF isArray(vnode) /\ Len(vnode.children) > 0
                            THEN vnode.children[1] ELSE Str("")
             safeText == IF typeof(textContent) \in {"string", "number"}
                         THEN textContent ELSE Str("")
         IN createTextNode(safeText)
    ELSE appendChildren(createElement(vnode.tag, vnode.attrs),
                        IF isArray(vnode) THEN vnode.children ELSE <<>>)

\* node && typeof node === 'object' && node.tag === 'TEXT_NODE'
isTextVNode(node) == node.t = "vnode" /\ node.tag = "TEXT_NODE"

\* node.children?.[0] ?? ''
firstChildOrEmpty(node) ==
    IF Len(node.children) > 0 /\ node.children[1].t # "null"
    THEN node.children[1] ELSE Str("")

\* vnode.tag, and vnode.attrs || {}, of an entry that may have neither
tagOf(node) == IF node.t = "vnode" THEN node.tag ELSE "undefined"
attrsOf(node) == IF node.t = "vnode" THEN node.attrs ELSE EmptyMap

\* hasChanged that looks at the tags only
hasChangedTagOnly(node1, node2) ==
    IF node1.t = "vnode" /\ node2.t = "vnode" THEN node1.tag # node2.tag ELSE TRUE

\* hasChanged that also reports a change when the attributes differ
hasChangedByAttrs(node1, node2) ==
    IF node1.t = "vnode" /\ node2.t = "vnode" /\ node1.tag # "TEXT_NODE"
       /\ node2.tag # "TEXT_NODE"
    THEN node1.tag # node2.tag \/ node1.attrs # node2.attrs
    ELSE TRUE

\* Dom.hasChanged(node1, node2)
hasChanged(node1, node2) ==
    IF typeof(node1) # typeof(node2) THEN TRUE
    ELSE IF typeof(node1) \in {"string", "number"}
    THEN String(node1) # String(node2)
    ELSE IF isTextVNode(node1) \/ isTextVNode(node2)
    THEN LET text1 == IF isTextVNode(node1) THEN firstChildOrEmpty(node1) ELSE Str("")
             text2 == IF isTextVNode(node2) THEN firstChildOrEmpty(node2) ELSE Str("")
         IN String(text1) # String(text2)
    ELSE IF node1.t = "null" \/ node2.t = "null" THEN TRUE
    ELSE IF tagOf(node1) # tagOf(node2) THEN TRUE
    ELSE IF "key" \in DOMAIN attrsOf(node1) /\ "key" \in DOMAIN attrsOf(node2)
    THEN node1.attrs["key"] # node2.attrs["key"]
    ELSE FALSE

\* a first loop that resets nothing
removeNothing(element, newAttrs, ks) == element

\* the first loop of updateAttributes: keys of oldAttrs absent from newAttrs
RECURSIVE removeOld(_, _, _)
removeOld(element, newAttrs, ks) ==
    IF ks = <<>> THEN element
    ELSE LET key == Head(ks)
             reset ==
                IF key \in DOMAIN newAttrs THEN element
                ELSE IF key = "className"
                THEN [element EXCEPT !.className = "", !.writes = @ \cup {key}]
                ELSE IF key \in {"checked", "disabled", "selected"}
                THEN [element EXCEPT !.props = put(@, key, "false"),
                                     !.writes = @ \cup {key}]
                ELSE IF startsWithOn(key)
                THEN [element EXCEPT !.on = put(@, toLowerCase(key), Null),
                                     !.writes = @ \cup {key}]
                ELSE [element EXCEPT !.attributes = del(@, key),
                                     !.props = del(@, key),
                                     !.style = IF key = "style" THEN EmptyMap ELSE @,
                                     !.writes = @ \cup {key}]
         IN removeOld(reset, newAttrs, Tail(ks))

\* a second loop that sets every entry of newAttrs
setUnconditionally(element, newAttrs, oldAttrs, ks) == setAll(element, newAttrs, ks)

\* the second loop of updateAttributes: entries of newAttrs that differ
RECURSIVE setChanged(_, _, _, _)
setChanged(element, newAttrs, oldAttrs, ks) ==
    IF ks = <<>> THEN element
    ELSE LET key == Head(ks)
             differs == \/ key \notin DOMAIN oldAttrs
                        \/ ~identical(oldAttrs[key], newAttrs[key])
         IN setChanged(IF differs THEN setAttribute(element, key, newAttrs[key])
                       ELSE element,
                       newAttrs, oldAttrs, Tail(ks))

\* Dom.updateAttributes(element, newAttrs, oldAttrs)
updateAttributes(element, newAttrs, oldAttrs) ==
    setChanged(removeOld(element, newAttrs, keys(oldAttrs)),
               newAttrs, oldAttrs, keys(newAttrs))

\* normalizeChild of patchChildren
normalizeChild(child) ==
    IF child.t = "null"
    THEN [t |-> "vnode", tag |-> "TEXT_NODE", attrs |-> EmptyMap,
          children |-> <<Str("")>>, key |-> Null]
    ELSE IF typeof(child) \in {"string", "number"}
    THEN [t |-> "vnode", tag |-> "TEXT_NODE", attrs |-> EmptyMap,
          children |-> <<Str(String(child))>>, key |-> Null]
    ELSE child

\* children.map(normalizeChild).filter(Boolean)
normalized(children) ==
    SelectSeq([i \in 1..Len(children) |-> normalizeChild(children[i])], truthy)

\* the filter of patch: entries that are objects, strings or numbers
validChildren(children) ==
    SelectSeq(children, LAMBDA c : typeof(c) \in {"object", "string", "number"})

\* an insertion that puts the node after the one at i, and a removal that
\* takes the last node whatever i is
insertAfter(nodes, i, node) ==
    SubSeq(nodes, 1, i) \o <<node>> \o SubSeq(nodes, i + 1, Len(nodes))
removeLast(nodes, i) == SubSeq(nodes, 1, Len(nodes) - 1)

\* parent.replaceChild(node, parent.childNodes[i]) on the list of children
replaceAt(nodes, i, node) == [nodes EXCEPT ![i] = node]
\* parent.insertBefore(node, parent.childNodes[i]), parent.removeChild(...)
insertAt(nodes, i, node) ==
    SubSeq(nodes, 1, i - 1) \o <<node>> \o SubSeq(nodes, i, Len(nodes))
removeAt(nodes, i) == SubSeq(nodes, 1, i - 1) \o SubSeq(nodes, i + 1, Len(nodes))

\* (vnode.children || []).map(normalizeChild) throws when children is
\* neither a list nor falsy
mapThrows(node) == node.t = "vnode" /\ ~isArray(node)
childrenOrEmpty(node) == IF node.t = "vnode" THEN node.children ELSE <<>>

\* Dom.patchChildren(parent, newChildren, oldChildren): the parent afterwards,
\* with thrown set when an exception leaves the call.
\* diffFrom is the for loop of the try block from index i (1-based) on the
\* children nodes: the nodes when the loop ends, and whether it ended by an
\* exception.
RECURSIVE patchChildren(_, _, _)
RECURSIVE diffFrom(_, _, _, _)
diffFrom(nodes, normalizedNew, normalizedOld, i) ==
    IF i > Len(normalizedNew) THEN [nodes |-> nodes, thrown |-> FALSE]
    ELSE LET newChild == normalizedNew[i]
             created == createFromVNode(newChild)
         IN IF i > Len(nodes)
            THEN IF created = Failure THEN [nodes |-> nodes, thrown |-> TRUE]
                 ELSE diffFrom(Append(nodes, created), normalizedNew, normalizedOld,
                               i + 1)
            ELSE IF i > Len(normalizedOld) \/ hasChanged(newChild, normalizedOld[i])
            THEN IF created = Failure THEN [nodes |-> nodes, thrown |-> TRUE]
                 ELSE diffFrom(replaceAt(nodes, i, created), normalizedNew,
                               normalizedOld, i + 1)
            ELSE IF tagOf(newChild) = "TEXT_NODE"
            THEN diffFrom(nodes, normalizedNew, normalizedOld, i + 1)
            ELSE IF nodes[i].nodeType = 1
            THEN LET oldChild == normalizedOld[i]
                     domNode == updateAttributes(nodes[i], attrsOf(newChild),
                                                 attrsOf(oldChild))
                     patched == patchChildren(domNode,
                                              normalized(childrenOrEmpty(newChild)),
                                              normalized(childrenOrEmpty(oldChild)))
                 IN IF mapThrows(newChild) \/ mapThrows(oldChild)
                    THEN [nodes |-> replaceAt(nodes, i, domNode), thrown |-> TRUE]
                    ELSE IF patched.thrown
                    THEN [nodes |-> replaceAt(nodes, i, patched), thrown |-> TRUE]
                    ELSE diffFrom(replaceAt(nodes, i, patched), normalizedNew,
                                  normalizedOld, i + 1)
            ELSE diffFrom(nodes, normalizedNew, normalizedOld, i + 1)

\* the try block of patchChildren: the children of the parent when it ends,
\* and whether it ended by an exception
reconcile(parent, newChildren, oldChildren) ==
    LET normalizedNew == normalized(newChildren)
        normalizedOld == normalized(oldChildren)
    IN IF Len(normalizedNew) = 0
       THEN [nodes |-> <<>>, thrown |-> FALSE]
       ELSE LET kept == IF Len(parent.childNodes) > Len(normalizedNew)
                        THEN SubSeq(parent.childNodes, 1, Len(normalizedNew))
                        ELSE parent.childNodes
            IN diffFrom(kept, normalizedNew, normalizedOld, 1)

\* the forEach of the catch block of patchChildren on the cleared parent:
\* the exception of createFromVNode leaves the block
RECURSIVE rematerialize(_, _)
rematerialize(parent, newChildren) ==
    IF newChildren = <<>> THEN parent
    ELSE LET child == Head(newChildren) IN
         IF child.t = "null" THEN rematerialize(parent, Tail(newChildren))
         ELSE LET node == createFromVNode(child) IN
              IF node = Failure THEN [parent EXCEPT !.thrown = TRUE]
              ELSE rematerialize(appendChild(parent, node), Tail(newChildren))

\* patchChildren that clears the parent and materializes the new list
patchChildrenRebuild(parent, newChildren, oldChildren) ==
    rematerialize([parent EXCEPT !.childNodes = <<>>], newChildren)

patchChildren(parent, newChildren, oldChildren) ==
    LET attempt == reconcile(parent, newChildren, oldChildren)
    IN IF ~attempt.thrown
       THEN [parent EXCEPT !.childNodes = attempt.nodes]
       ELSE rematerialize([parent EXCEPT !.childNodes = <<>>], newChildren)

\* Dom.patch(parent, newVNode, oldVNode, index): the parent afterwards, with
\* thrown set when an exception leaves the call
patch(parent, newVNode, oldVNode, index) ==
    LET present == index + 1 <= Len(parent.childNodes)
        created == createFromVNode(newVNode)
    IN
    IF ~truthy(oldVNode) /\ ~truthy(newVNode) THEN parent
    ELSE IF ~truthy(oldVNode)
    THEN IF created = Failure THEN [parent EXCEPT !.thrown = TRUE]
         ELSE [parent EXCEPT !.childNodes =
                  IF present THEN insertAt(@, index + 1, created)
                  ELSE Append(@, created)]
    ELSE IF ~truthy(newVNode)
    THEN [parent EXCEPT !.childNodes = IF present THEN removeAt(@, index + 1) ELSE @]
    ELSE IF hasChanged(newVNode, oldVNode)
    THEN IF ~present THEN parent
         ELSE IF created = Failure THEN [parent EXCEPT !.thrown = TRUE]
         ELSE [parent EXCEPT !.childNodes = replaceAt(@, index + 1, created)]
    ELSE IF newVNode.t = "vnode" /\ newVNode.tag # ""
            /\ present /\ parent.childNodes[index + 1].nodeType = 1
    THEN LET element == updateAttributes(parent.childNodes[index + 1],
                                         attrsOf(newVNode), attrsOf(oldVNode))
             patched == patchChildren(element, validChildren(newVNode.children),
                                      validChildren(childrenOrEmpty(oldVNode)))
         IN IF mapThrows(newVNode) \/ mapThrows(oldVNode)
            THEN [parent EXCEPT !.childNodes = replaceAt(@, index + 1, element),
                                !.thrown = TRUE]
            ELSE [parent EXCEPT !.childNodes = replaceAt(@, index + 1, patched),
                                !.thrown = patched.thrown]
    ELSE parent

\* renderWithDiff that never clears the container
renderWithDiffNoClear(c, newVTree, oldVTree) ==
    IF ~truthy(oldVTree) /\ truthy(newVTree)
    THEN [c EXCEPT !.childNodes = Append(@, createFromVNode(newVTree))]
    ELSE IF ~truthy(oldVTree) THEN c
    ELSE patch(c, newVTree, oldVTree, 0)

\* Dom.renderWithDiff(container, newVTree, oldVTree): the container afterwards,
\* with thrown set when an exception leaves the call
renderWithDiff(c, newVTree, oldVTree) ==
    IF ~truthy(oldVTree)
    THEN LET cleared == IF c.nodeType = 1 THEN [c EXCEPT !.childNodes = <<>>]
                        ELSE c IN
         IF truthy(newVTree)
         THEN LET created == createFromVNode(newVTree) IN
              IF created = Failure THEN [cleared EXCEPT !.thrown = TRUE]
              ELSE [cleared EXCEPT !.childNodes = Append(@, created)]
         ELSE cleared
    ELSE patch(c, newVTree, oldVTree, 0)

(***************************************************************************)
(* The application: it keeps the tree it rendered last and renders the     *)
(* next one against it.                                                    *)
(***************************************************************************)
\* the entries a children list of the root may hold
Kids ==
    {Str("a"), Num(1), Null,
     h("span", [k \in {"id"} |-> Str("x")], <<Str("a")>>),
     h("p", EmptyMap, <<>>)}

\* the virtual trees the application renders
VTrees ==
    {h("div", EmptyMap, children) :
        children \in UNION {[1..n -> Kids] : n \in 0..MaxKids}}

\* the container before the first render: an empty element
emptyContainer == settled(Element("div"))

\* the container as the call Dom.renderWithDiff(container, newVTree, prevVTree)
\* leaves it, with the history of that call
rendered(newVTree) == renderWithDiff(container, newVTree, prevVTree)

\* the container after the first render of a tree into an empty container
firstRender(vtree) == settled(renderWithDiff(emptyContainer, vtree, Null))

\* the application calls Dom.renderWithDiff(container, newVTree, prevVTree)
\* and keeps newVTree as the tree to diff against next time
render(newVTree) ==
    /\ container' = settled(rendered(newVTree))
    /\ prevVTree' = newVTree
    /\ renders' = renders + 1
    /\ UNCHANGED <<eventVars, call, peers>>

Render ==
    /\ renders < MaxRenders
    /\ \E newVTree \in VTrees : render(newVTree)

\* the entries of a list the application renders: items of one tag without
\* a key
ListItems ==
    {h("li", EmptyMap, <<Str("A")>>),
     h("li", EmptyMap, <<Str("B")>>),
     h("li", [k \in {"id"} |-> Str("x")], <<Str("A")>>)}

\* the list trees
ListTrees ==
    {h("ul", EmptyMap, children) :
        children \in UNION {[1..n -> ListItems] : n \in 0..MaxKids}}

\* the same call as render(newVTree); the container keeps the history of the
\* call (which nodes it created, which keys it wrote) until the next call
renderList(newVTree) ==
    /\ container' = renderWithDiff(settled(container), newVTree, prevVTree)
    /\ prevVTree' = newVTree
    /\ renders' = renders + 1
    /\ UNCHANGED <<eventVars, call, peers>>

RenderList ==
    /\ renders < MaxListRenders
    /\ \E newVTree \in ListTrees : renderList(newVTree)

(***************************************************************************)
(* Direct calls of the static methods of Dom.                              *)
(***************************************************************************)
\* element vnodes as callers pass them to hasChanged: two tags, with and
\* without a key, with and without another attribute
KeyedAttrs ==
    {EmptyMap, [k \in {"id"} |-> Str("x")]}
    \cup {[k \in {"key"} |-> Str(v)] : v \in {"k1", "k2"}}
    \cup {[k \in {"id", "key"} |-> IF k = "id" THEN Str("x") ELSE Str(v)] :
             v \in {"k1", "k2"}}
ElementVNodes == {h(tag, attrs, <<>>) : tag \in {"span", "p"}, attrs \in KeyedAttrs}

\* a call that has not returned yet
Call(op, args) == [op |-> op, args |-> args, done |-> FALSE, result |-> Null]

\* Dom.hasChanged(node1, node2) called and returning
callHasChanged ==
    /\ call.op = "hasChanged" /\ ~call.done
    /\ call' = [call EXCEPT !.done = TRUE,
                            !.result = hasChanged(call.args[1], call.args[2])]
    /\ UNCHANGED <<eventVars, domVars, peers>>

CallHasChanged == callHasChanged

\* Dom.patchChildren(parent, newChildren, oldChildren) called and returning
callPatchChildren ==
    /\ call.op = "patchChildren" /\ ~call.done
    /\ call' = [call EXCEPT !.done = TRUE,
                            !.result = patchChildren(call.args[1], call.args[2],
                                                     call.args[3])]
    /\ UNCHANGED <<eventVars, domVars, peers>>

CallPatchChildren == callPatchChildren

\* Dom.renderWithDiff(container, newVTree, oldVTree) called and returning
callRenderWithDiff ==
    /\ call.op = "renderWithDiff" /\ ~call.done
    /\ call' = [call EXCEPT !.done = TRUE,
                            !.result = renderWithDiff(call.args[1], call.args[2],
                                                      call.args[3])]
    /\ UNCHANGED <<eventVars, domVars, peers>>

CallRenderWithDiff == callRenderWithDiff

\* Dom.updateAttributes(element, newAttrs, oldAttrs) called and returning
callUpdateAttributes ==
    /\ call.op = "updateAttributes" /\ ~call.done
    /\ call' = [call EXCEPT !.done = TRUE,
                            !.result = updateAttributes(call.args[1], call.args[2],
                                                        call.args[3])]
    /\ UNCHANGED <<eventVars, domVars, peers>>

CallUpdateAttributes == callUpdateAttributes

\* Dom.setAttribute(element, key, value) called and returning
callSetAttribute ==
    /\ call.op = "setAttribute" /\ ~call.done
    /\ call' = [call EXCEPT !.done = TRUE,
                            !.result = setAttribute(call.args[1], call.args[2],
                                                    call.args[3])]
    /\ UNCHANGED <<eventVars, domVars, peers>>

CallSetAttribute == callSetAttribute

\* Dom.createFromVNode(vnode) called and returning a node, or throwing
callCreateFromVNode ==
    /\ call.op = "createFromVNode" /\ ~call.done
    /\ call' = [call EXCEPT !.done = TRUE,
                            !.result = createFromVNode(call.args[1])]
    /\ UNCHANGED <<eventVars, domVars, peers>>

CallCreateFromVNode == callCreateFromVNode

\* handlers a dispatch may find registered
MaxDispatch == 3

\* what a callback does when it is invoked: nothing (-1), or removeEvent(id)
\* for the id of the first or of the second handler
CallbackRemoves == {-1, 0, 1}

\* this._handlers with click handlers registered one after the other, each
\* with its selector and its callback
RECURSIVE DispatchLists(_)
DispatchLists(n) ==
    IF n = 0 THEN {<<>>}
    ELSE LET shorter == DispatchLists(n - 1)
         IN  shorter \cup
             {Append(hs, [id |-> Len(hs), event |-> "click", selector |-> sel,
                          removes |-> rm]) :
                 hs \in {l \in shorter : Len(l) = n - 1},
                 sel \in {"li", ".a"}, rm \in CallbackRemoves}

\* h.callback(e, el) returned: the registry's list after what the callback did
afterCallback(hs, handler) ==
    IF handler.removes = -1 \/ findIndex(hs, handler.removes) = 0 THEN hs
    ELSE splice(hs, findIndex(hs, handler.removes))

\* a selector that is no valid CSS: querySelectorAll(selector) and
\* el.matches(selector) throw a SyntaxError for it
malformed(selector) == selector = "li["

\* this._handlers.forEach(h => ...): the positions 1..len of the list as it
\* is when each position is reached; len is the length when forEach started
RECURSIVE forEach(_, _, _, _, _)
forEach(hs, k, len, el, called) ==
    IF k > len THEN [handlers |-> hs, invoked |-> called, thrown |-> FALSE]
    ELSE IF k > Len(hs) THEN forEach(hs, k + 1, len, el, called)
    ELSE IF hs[k].event = "click" /\ malformed(hs[k].selector)
    THEN [handlers |-> hs, invoked |-> called, thrown |-> TRUE]
    ELSE IF hs[k].event = "click" /\ matches(el, hs[k].selector)
    THEN forEach(afterCallback(hs, hs[k]), k + 1, len, el, Append(called, hs[k].id))
    ELSE forEach(hs, k + 1, len, el, called)

\* the domListener of el run for a click
callDomListener ==
    /\ call.op = "domListener" /\ ~call.done
    /\ call' = [call EXCEPT
                  !.done = TRUE,
                  !.result = forEach(call.args[1], 1, Len(call.args[1]),
                                     call.args[2], <<>>)]
    /\ UNCHANGED <<eventVars, domVars, peers>>

CallDomListener == callDomListener

\* a click on a node, for every list of handlers
DomListenerCalls ==
    {Call("domListener", <<hs, el>>) : hs \in DispatchLists(MaxDispatch), el \in Nodes}

\* this._handlers when some selectors were malformed: the record stays in
\* the list although its bind failed; the callbacks remove nothing
RECURSIVE SelectorLists(_)
SelectorLists(n) ==
    IF n = 0 THEN {<<>>}
    ELSE LET shorter == SelectorLists(n - 1)
         IN  shorter \cup
             {Append(hs, [id |-> Len(hs), event |-> "click", selector |-> sel,
                          removes |-> -1]) :
                 hs \in {l \in shorter : Len(l) = n - 1},
                 sel \in {"li", ".a", "li["}}

\* a click on a node that carries the registry's listener
MalformedCalls ==
    {Call("domListener", <<hs, el>>) :
        hs \in {l \in SelectorLists(MaxDispatch) :
                   \E i \in 1..Len(l) : ~malformed(l[i].selector)},
        el \in Nodes}

\* what was registered before the tree grew: element events with a selector,
\* a global event type with a selector, a global event with the sentinel
GrowthRegistrations ==
    {<<"click", "li">>, <<"click", ".a">>, <<"load", "li">>, <<"load", "window">>}

\* a registry after onEvent(event, selector, callback) on the document doc
registryWith(event, selector, doc) ==
    applyEventHandler(
        [handlers |-> <<[id |-> 0, event |-> event, selector |-> selector,
                         domListeners |-> {}, windowListener |-> FALSE,
                         acked |-> FALSE, awaiting |-> FALSE]>>,
         processedItems |-> [el \in Nodes |-> {}],
         elListeners |-> [k \in Nodes \X supportedEvents |-> 0],
         winListeners |-> <<>>],
        1, doc)

\* the MutationObserver callback run with records that hold added nodes
callObserver ==
    /\ call.op = "observer" /\ ~call.done
    /\ call' = [call EXCEPT !.done = TRUE,
                            !.result = reapply(call.args[1], 1, call.args[2])]
    /\ UNCHANGED <<eventVars, domVars, peers>>

CallObserver == callObserver

\* a handler registered on a document that then grows
ObserverCalls ==
    {Call("observer", <<registryWith(args[1], args[2], grown[1]), grown[2]>>) :
        args \in GrowthRegistrations,
        grown \in {g \in (SUBSET Nodes) \X (SUBSET Nodes) :
                      g[1] \subseteq g[2] /\ g[1] # g[2]}}

\* the MutationObserver callback for one record: handlers are re-applied
\* when the record holds added nodes; removed nodes are not looked at
notified(R, added, doc) == IF added THEN reapply(R, 1, doc) ELSE R

\* the reconciler removes a node (removeChild), or replaces it by a node that
\* was not in the document (replaceChild), and the observer callback runs
callRemoveNode ==
    /\ call.op = "removeNode" /\ ~call.done
    /\ call' = [call EXCEPT
                  !.done = TRUE,
                  !.result =
                      LET doc == (call.args[2] \ {call.args[3]}) \cup call.args[4]
                      IN  [registry |-> notified(call.args[1], call.args[4] # {}, doc),
                           doc |-> doc]]
    /\ UNCHANGED <<eventVars, domVars, peers>>

\* a handler registered on a document, one of whose nodes then leaves it
RemoveNodeCalls ==
    {Call("removeNode", <<registryWith(args[1], args[2], c[1]), c[1], c[2], c[3]>>) :
        args \in GrowthRegistrations,
        c \in {d \in (SUBSET Nodes) \X Nodes \X (SUBSET Nodes) :
                  /\ d[2] \in d[1]
                  /\ d[3] \cap d[1] = {}
                  /\ Cardinality(d[3]) <= 1}}

\* the calls of hasChanged on two element vnodes
HasChangedCalls == {Call("hasChanged", <<a, b>>) : a \in ElementVNodes, b \in ElementVNodes}

\* the texts a children list holds: strings, numbers, TEXT_NODE vnodes, and
\* the empty TEXT_NODE normalizeChild makes from null
TextNodes ==
    {Str("a"), Str(""), Num(1), normalizeChild(Null),
     normalizeChild(Str("a")), normalizeChild(Str("b"))}

\* the calls of hasChanged that involve a text
HasChangedTextCalls ==
    {Call("hasChanged", <<a, b>>) : a \in TextNodes, b \in TextNodes \cup ElementVNodes}
    \cup {Call("hasChanged", <<a, b>>) : a \in ElementVNodes, b \in TextNodes}

\* the entries of the children lists patchChildren is called with: elements
\* of one tag, without a key, with the same key, with other attributes and
\* with a text, and null
ChildKinds ==
    {h("li", EmptyMap, <<>>),
     h("li", [k \in {"id"} |-> Str("x")], <<Str("A")>>),
     h("li", [k \in {"key"} |-> Str("k1")], <<Str("A")>>),
     h("li", [k \in {"key", "id"} |-> IF k = "key" THEN Str("k1") ELSE Str("x")],
       <<Str("B")>>),
     Null}
ChildLists == UNION {[1..n -> ChildKinds] : n \in 0..MaxKids}

\* entries written by hand: an item whose children is a string and no list,
\* and an object without a tag
handItem ==
    [t |-> "vnode", tag |-> "li", attrs |-> EmptyMap, children |-> <<>>,
     key |-> Null, childrenValue |-> Str("x")]
noTag == Obj(0, EmptyMap)

\* the lists that can be materialized, and those with any entry written by hand
OldHandLists ==
    UNION {[1..n -> {h("li", EmptyMap, <<>>), handItem}] : n \in 0..MaxKids}
NewHandLists ==
    UNION {[1..n -> {h("li", EmptyMap, <<>>), handItem, noTag}] : n \in 0..MaxKids}

\* keyed siblings, and one without a key: the lists an application reorders
KeyedItems ==
    {h("li", [k \in {"key"} |-> Str("k1")], <<Str("A")>>),
     h("li", [k \in {"key"} |-> Str("k2")], <<Str("B")>>),
     h("li", EmptyMap, <<Str("C")>>)}
KeyedLists == UNION {[1..n -> KeyedItems] : n \in 0..MaxKids}

\* the calls of patchChildren on a parent that holds the materialized old list
PatchChildrenCalls ==
    {Call("patchChildren",
          <<settled(createFromVNode(h("ul", EmptyMap, oldChildren))),
            newChildren, oldChildren>>) :
        newChildren \in ChildLists, oldChildren \in ChildLists}
    \cup
    {Call("patchChildren",
          <<settled(createFromVNode(h("ul", EmptyMap, oldChildren))),
            newChildren, oldChildren>>) :
        newChildren \in NewHandLists, oldChildren \in OldHandLists}
    \cup
    {Call("patchChildren",
          <<settled(createFromVNode(h("ul", EmptyMap, oldChildren))),
            newChildren, oldChildren>>) :
        newChildren \in KeyedLists, oldChildren \in KeyedLists}

\* the trees renderWithDiff is called with, and null
RootTrees ==
    {h("div", EmptyMap, children) :
        children \in UNION {[1..n -> {Str("a"), h("span", EmptyMap, <<>>)}] :
                               n \in 0..MaxKids}}
    \cup {Null}

\* what a container may hold before a call: nothing, or children that no
\* render put there
Leftovers ==
    {emptyContainer,
     settled(appendChild(Element("div"), createTextNode(Str("old")))),
     settled(appendChild(appendChild(Element("div"), Element("p")),
                         createTextNode(Str("old"))))}

\* the calls of renderWithDiff: on a container with such children, and on
\* the container that holds the first render of the old tree
RenderWithDiffCalls ==
    {Call("renderWithDiff", <<c, newVTree, oldVTree>>) :
        c \in Leftovers, newVTree \in RootTrees, oldVTree \in RootTrees}
    \cup
    {Call("renderWithDiff", <<firstRender(oldVTree), newVTree, oldVTree>>) :
        newVTree \in RootTrees, oldVTree \in RootTrees}

\* the values attributes take: two ids, a class name, a handler, and style
\* mappings, two of them different objects with the same properties
AttrValues ==
    [id |-> {Str("x"), Str("y")},
     className |-> {Str("c")},
     onClick |-> {Fn("f")},
     style |-> {Obj(1, [p \in {"color", "width"} |->
                          IF p = "color" THEN "red" ELSE "1px"]),
                Obj(2, [p \in {"color", "width"} |->
                          IF p = "color" THEN "red" ELSE "1px"]),
                Obj(3, [p \in {"color"} |-> "blue"])}]

\* the attribute mappings of a vnode
AttrMaps ==
    UNION {{m \in [ks -> UNION {AttrValues[k] : k \in ks}] :
               \A k \in ks : m[k] \in AttrValues[k]} :
           ks \in SUBSET {"id", "className", "onClick", "style"}}

\* the calls of updateAttributes on the element made with the old attributes
UpdateAttributesCalls ==
    {Call("updateAttributes",
          <<settled(createElement("div", oldAttrs)), newAttrs, oldAttrs>>) :
        newAttrs \in AttrMaps, oldAttrs \in AttrMaps}

\* the vnodes patch is called with: an element, a text, an element with an
\* attribute and a text, or null
PatchVNodes ==
    {Null, h("li", EmptyMap, <<>>), normalizeChild(Str("a")),
     h("span", [k \in {"id"} |-> Str("x")], <<Str("a")>>)}

\* the native children a parent has when patch is called
PatchKids ==
    {settled(createFromVNode(vnode)) :
        vnode \in {h("li", EmptyMap, <<>>), normalizeChild(Str("b")),
                   h("span", EmptyMap, <<>>)}}

\* the parents: an element with up to MaxKids children
PatchParents ==
    {[settled(Element("ul")) EXCEPT !.childNodes = kids] :
        kids \in UNION {[1..n -> PatchKids] : n \in 0..MaxKids}}

\* Dom.patch(parent, newVNode, oldVNode, index) called and returning
callPatch ==
    /\ call.op = "patch" /\ ~call.done
    /\ call' = [call EXCEPT !.done = TRUE,
                            !.result = patch(call.args[1], call.args[2],
                                             call.args[3], call.args[4])]
    /\ UNCHANGED <<eventVars, domVars, peers>>

\* the calls of patch at an index inside, at the end of and beyond the children
PatchCalls ==
    {Call("patch", <<parent, newVNode, oldVNode, index>>) :
        parent \in PatchParents, newVNode \in PatchVNodes,
        oldVNode \in PatchVNodes, index \in 0..(MaxKids + 1)}

\* one value for each kind of key: a class name, a handler, a boolean-like
\* key, a key that is a property of the element, a key that is not, a style
ResetValues ==
    [className |-> Str("c"), onClick |-> Fn("f"), checked |-> Bool(TRUE),
     title |-> Str("t"), key |-> Str("k1"),
     style |-> Obj(1, [p \in {"color"} |-> "red"])]

\* the attribute mappings over these keys
ResetMaps == {[k \in ks |-> ResetValues[k]] : ks \in SUBSET DOMAIN ResetValues}

\* the calls of updateAttributes that drop and keep keys of every kind
ResetCalls ==
    {Call("updateAttributes",
          <<settled(createElement("div", oldAttrs)), newAttrs, oldAttrs>>) :
        newAttrs \in ResetMaps, oldAttrs \in ResetMaps}

\* the calls of setAttribute on a new element, or on one that has the
\* attributes already: a handler or a string for an on-prefixed key, an id,
\* a class name
SetAttributeCalls ==
    {Call("setAttribute", <<settled(createElement("button", attrs)), key, value>>) :
        attrs \in AttrMaps,
        key \in {"onClick", "id", "className"},
        value \in {Fn("f"), Fn("g"), Str("x")}}

\* the shapes of a child: a string, a number, null, an element vnode, a
\* boolean, an object without a tag, and a nested array
ChildShapes ==
    {Str("a"), Num(1), Null, h("span", EmptyMap, <<Str("b")>>),
     Bool(TRUE), Bool(FALSE), noTag, Arr(<<Str("c"), Num(2)>>)}

\* the calls of createFromVNode on an element vnode with such children
CreateFromVNodeCalls ==
    {Call("createFromVNode", <<h("div", EmptyMap, children)>>) :
        children \in UNION {[1..n -> ChildShapes] : n \in 0..MaxKids}}

\* the reconciler's side before the first render
InitDom ==
    /\ container = emptyContainer
    /\ prevVTree = Null
    /\ renders = 0

\* no direct call of a static method is under way
NoCall == [op |-> "none", args |-> <<>>, done |-> TRUE, result |-> Null]

(***************************************************************************)
(* Two Event instances on one document.  Every field of the registry       *)
(* (_handlers, _processedItems) belongs to its instance; the nodes and     *)
(* their native listeners are shared.  The repository has two copies of    *)
(* class Event: src/src/dom.js attaches with addEventListener and detaches *)
(* with removeEventListener, src/shedjs/events.js assigns the node's       *)
(* on<event> property and detaches nothing.                                *)
(***************************************************************************)
Registries == {"A", "B"}

Builds == {"src/dom.js", "shedjs/events.js"}

\* handlers one instance may hold at a time
MaxPeerHandlers == 2

\* what the callers pass to onEvent of either instance: a selector for click
PeerSelectors == {"li", ".a"}

newRegistry == [handlers |-> <<>>, processedItems |-> [el \in Nodes |-> {}]]

\* no click has been dispatched since the last registry operation
noneInvoked == [r \in Registries |-> <<>>]

newPeers(build) ==
    [ build     |-> build,
      regs      |-> [r \in Registries |-> newRegistry],
      listeners |-> [el \in Nodes |-> {}],      \* addEventListener'd, by owner
      onclick   |-> [el \in Nodes |-> "none"],  \* owner of el.onclick
      invoked   |-> noneInvoked,
      last      |-> [op |-> "none", on |-> "none"] ]

\* the single instance the rest of the model is about
NoPeers == newPeers("src/dom.js")

\* _applyEventHandler of instance r for its handler at position i: the nodes
\* the selector matches that this handler has no listener for and whose
\* seen-set of r lacks the type get a native listener
peerFresh(P, r, i) ==
    LET handler == P.regs[r].handlers[i]
    IN  {el \in Nodes : /\ matches(el, handler.selector)
                        /\ el \notin handler.domListeners
                        /\ "click" \notin P.regs[r].processedItems[el]}

\* el.onclick = domListener replaces whatever the property held
assignOnclick(P, r, els) ==
    [P EXCEPT !.onclick = [el \in Nodes |-> IF el \in els THEN r ELSE @[el]]]

\* el.addEventListener('click', domListener) adds to the node's listeners
peerAddEventListener(P, r, els) ==
    [P EXCEPT !.listeners =
        [el \in Nodes |-> IF el \in els THEN @[el] \cup {r} ELSE @[el]]]

attach(P, r, els) ==
    IF P.build = "src/dom.js" THEN peerAddEventListener(P, r, els)
    ELSE assignOnclick(P, r, els)

peerApplyEventHandler(P, r, i) ==
    LET els == peerFresh(P, r, i)
        Q   == attach(P, r, els)
    IN  [Q EXCEPT
          !.regs[r].processedItems =
              [el \in Nodes |-> IF el \in els THEN @[el] \cup {"click"}
                                ELSE @[el]],
          !.regs[r].handlers[i].domListeners = @ \cup els]

\* _cleanupHandler: src/src/dom.js removes the handler's native listeners,
\* src/shedjs/events.js only clears the handler's map
peerCleanupHandler(P, r, handler) ==
    IF P.build = "src/dom.js"
    THEN [P EXCEPT !.listeners =
            [el \in Nodes |-> IF el \in handler.domListeners THEN @[el] \ {r}
                              ELSE @[el]]]
    ELSE P

RECURSIVE peerCleanupAll(_, _, _)
peerCleanupAll(P, r, hs) ==
    IF hs = <<>> THEN P
    ELSE peerCleanupAll(peerCleanupHandler(P, r, Head(hs)), r, Tail(hs))

\* instance r: onEvent('click', selector, callback); the id is _handlers.length
peerOnEvent(P, r, selector) ==
    LET hs == P.regs[r].handlers
        handler == [id |-> Len(hs), selector |-> selector, domListeners |-> {}]
        Q  == [P EXCEPT !.regs[r].handlers = Append(hs, handler)]
    IN  peerApplyEventHandler(Q, r, Len(hs) + 1)

\* instance r: removeEvent(id)
peerRemoveEvent(P, r, id) ==
    LET hs  == P.regs[r].handlers
        pos == {i \in 1..Len(hs) : hs[i].id = id}
    IN  IF pos = {} THEN P
        ELSE LET i == CHOOSE k \in pos : \A j \in pos : k <= j
                 Q == peerCleanupHandler(P, r, hs[i])
             IN  [Q EXCEPT !.regs[r].handlers =
                     SubSeq(hs, 1, i - 1) \o SubSeq(hs, i + 1, Len(hs))]

\* instance r: destroy()
peerDestroy(P, r) ==
    LET Q == peerCleanupAll(P, r, P.regs[r].handlers)
    IN  [Q EXCEPT !.regs[r] = newRegistry]

\* is a native listener of instance r on el reached by a click
peerListens(P, r, el) ==
    IF P.build = "src/dom.js" THEN r \in P.listeners[el]
    ELSE P.onclick[el] = r

\* the callbacks of instance r a click on el invokes: its domListener walks
\* this._handlers and calls those whose selector matches el
peerDispatched(P, r, el) ==
    IF peerListens(P, r, el)
    THEN SelectSeq(P.regs[r].handlers, LAMBDA handler : matches(el, handler.selector))
    ELSE <<>>

PeerOnEvent ==
    \E r \in Registries, selector \in PeerSelectors :
        /\ Len(peers.regs[r].handlers) < MaxPeerHandlers
        /\ peers' = [peerOnEvent(peers, r, selector)
                        EXCEPT !.last = [op |-> "onEvent", on |-> r],
                               !.invoked = noneInvoked]
        /\ UNCHANGED <<eventVars, domVars, call>>

PeerRemoveEvent ==
    \E r \in Registries, id \in 0..(MaxPeerHandlers - 1) :
        /\ peers' = [peerRemoveEvent(peers, r, id)
                        EXCEPT !.last = [op |-> "removeEvent", on |-> r],
                               !.invoked = noneInvoked]
        /\ UNCHANGED <<eventVars, domVars, call>>

PeerDestroy ==
    \E r \in Registries :
        /\ peers' = [peerDestroy(peers, r)
                        EXCEPT !.last = [op |-> "destroy", on |-> r],
                               !.invoked = noneInvoked]
        /\ UNCHANGED <<eventVars, domVars, call>>

\* a click on el
PeerFire ==
    \E el \in Nodes :
        /\ peers' = [peers EXCEPT
                       !.invoked = [r \in Registries |->
                                       peerDispatched(peers, r, el)],
                       !.last = [op |-> "click", on |-> el]]
        /\ UNCHANGED <<eventVars, domVars, call>>

(***************************************************************************)
(* Global-scope handlers of one registry, for either copy of class Event:  *)
(* src/src/dom.js attaches each handler's listener to window with          *)
(* addEventListener and detaches it in _cleanupHandler;                    *)
(* src/shedjs/events.js assigns window.on<event> and detaches nothing.     *)
(***************************************************************************)
\* operations a script performs on the registry before the event occurs
MaxGlobalOps == 3

\* the registry after `new Event()`: no handler, no listener on window, the
\* window's on<event> property empty; made counts the callbacks passed so far
newGlobal == [handlers |-> <<>>, attached |-> <<>>, onload |-> 0, made |-> 0]

\* _applyEventHandler on a global-scope handler
attachGlobal(G, build, callback) ==
    IF build = "src/dom.js" THEN [G EXCEPT !.attached = Append(@, callback)]
    ELSE [G EXCEPT !.onload = callback]

\* onEvent('load', 'window', callback) with a callback not passed before
globalOnEvent(G, build) ==
    LET callback == G.made + 1
        pushed == [G EXCEPT !.made = callback,
                            !.handlers = Append(@, [id |-> Len(G.handlers),
                                                    callback |-> callback])]
    IN  attachGlobal(pushed, build, callback)

\* removeEvent(handlerId): _cleanupHandler, then splice
globalRemoveEvent(G, build, handlerId) ==
    LET index == findIndex(G.handlers, handlerId) IN
    IF index = 0 THEN G
    ELSE [G EXCEPT
            !.attached = IF build = "src/dom.js"
                         THEN SelectSeq(@, LAMBDA c : c # G.handlers[index].callback)
                         ELSE @,
            !.handlers = splice(@, index)]

\* the operations one after the other; 0 stands for onEvent, n > 0 for
\* removeEvent(n - 1)
RECURSIVE runGlobal(_, _, _)
runGlobal(G, build, ops) ==
    IF ops = <<>> THEN G
    ELSE runGlobal(IF Head(ops) = 0 THEN globalOnEvent(G, build)
                   ELSE globalRemoveEvent(G, build, Head(ops) - 1),
                   build, Tail(ops))

\* the callbacks one occurrence of the event runs, in order
globalDispatch(G, build) ==
    IF build = "src/dom.js" THEN G.attached
    ELSE IF G.onload # 0 THEN <<G.onload>> ELSE <<>>

\* a script of registrations and removals, then one occurrence of the event
callGlobalEvent ==
    /\ call.op = "globalEvent" /\ ~call.done
    /\ call' = [call EXCEPT
                  !.done = TRUE,
                  !.result =
                      LET G == runGlobal(newGlobal, call.args[1], call.args[2])
                      IN  [handlers |-> G.handlers,
                           invoked |-> globalDispatch(G, call.args[1])]]
    /\ UNCHANGED <<eventVars, domVars, peers>>

GlobalEventCalls ==
    {Call("globalEvent", <<build, ops>>) :
        build \in Builds,
        ops \in UNION {[1..n -> 0..2] : n \in 1..MaxGlobalOps}}

Init == InitEvent /\ InitDom /\ call = NoCall /\ peers = NoPeers

(***************************************************************************)
(* Properties of the delegation registry.                                  *)
(***************************************************************************)
\* the positions of the handlers that an event of type ev on el concerns
matching(hs, el, ev) ==
    {i \in 1..Len(hs) : hs[i].event = ev /\ matches(el, hs[i].selector)}

\* how often the callback at position i was run by the calls in inv
runs(inv, i) == Cardinality({k \in 1..Len(inv) : inv[k].callback = i})

\* what the next event of type ev on el would run
nextDispatch(hs, ls, el, ev) == times(ls[<<el, ev>>], domListener(hs, el, ev))

\* C1: every id a successful onEvent returns differs from every id the
\* registry returned before, so no two live handlers share an id.
C1_IdNeverReused ==
    /\ [][(last'.op = "onEvent" /\ last'.ret >= 0) => last'.ret \notin returnedIds]_vars
    /\ [](\A i, j \in 1..Len(handlers) : i # j => handlers[i].id # handlers[j].id)

\* C2: once removeEvent(id) has returned true for the id onEvent returned for
\* a callback, no later native event (on a node or on window) runs that
\* callback.
C2_RemovedNeverInvoked ==
    \A k \in 1..Len(invoked) : ~invoked[k].removed

\* C3: when two or more handlers of one event type match a node that carries
\* the registry's listener for that type, a successful removeEvent of any of
\* them leaves the listener in place, and the node's next event still runs
\* every remaining matching handler.
C3_SharedListenerPersists ==
    [][\A el \in Nodes, ev \in domEvents :
          ( /\ last'.op = "removeEvent" /\ last'.ret = 1
            /\ el \in inDoc
            /\ Cardinality(matching(handlers, el, ev)) >= 2
            /\ elListeners[<<el, ev>>] > 0 )
          => /\ elListeners'[<<el, ev>>] > 0
             /\ \A i \in matching(handlers', el, ev) :
                   runs(nextDispatch(handlers', elListeners', el, ev), i) >= 1]_vars

\* C4: removeEvent with an id that no live handler holds returns false and
\* leaves the handler list, every handler's bookkeeping, the element-seen set
\* and all native listeners as they were.
C4_UnknownIdNoEffect ==
    [][\A handlerId \in 0..MaxHandlers :
          ( /\ last'.op = "removeEvent"
            /\ \A i \in 1..Len(handlers) : handlers[i].id # handlerId
            /\ removeEvent(handlerId) )
          => /\ last'.ret = 0
             /\ UNCHANGED <<handlers, processedItems, elListeners, winListeners>>]_vars

\* reached: removeEvent answered false on a registry that holds a handler
\* with a native listener
C4_Witness ==
    /\ last.op = "removeEvent" /\ last.ret = 0
    /\ Len(handlers) >= 1
    /\ \E k \in DOMAIN elListeners : elListeners[k] > 0

\* C5: a native event on a node the registry has bound for that event type
\* runs every live handler of that type whose selector matches the node
\* exactly once, and in ascending order of the handlers' ids.
C5_FanOutOnceInIdOrder ==
    [][\A el \in Nodes, ev \in domEvents :
          (fire(el, ev) /\ ev \in processedItems[el])
          => /\ \A i \in matching(handlers, el, ev) : runs(invoked', i) = 1
             /\ \A k \in 1..Len(invoked') : invoked'[k].callback \in matching(handlers, el, ev)
             /\ \A j, k \in 1..Len(invoked') :
                   j < k => handlers[invoked'[j].callback].id
                               <= handlers[invoked'[k].callback].id]_vars

\* C6: every (node, event type) pair carries at most one native listener of
\* the registry.
C6_OneListenerPerNodeAndType ==
    \A k \in DOMAIN elListeners : elListeners[k] <= 1

\* reached: a tree-growth notification re-ran bind while two handlers of one
\* type match a node that carries the listener
C6_Witness ==
    /\ last.op = "notify"
    /\ \E el \in inDoc, ev \in domEvents :
          /\ Cardinality(matching(handlers, el, ev)) >= 2
          /\ elListeners[<<el, ev>>] = 1

\* C7: a handler registered while its selector matched no node (and while the
\* tree-growth subscription was live) is run by the next event of its type on
\* a matching node that was inserted afterwards, once the insertion has been
\* notified.
C7_RebindOnGrowth ==
    [][\A el \in Nodes, ev \in domEvents :
          fire(el, ev)
          => \A i \in matching(handlers, el, ev) :
                handlers[i].awaiting => runs(invoked', i) >= 1]_vars

C9_DestroyTearsDown ==
    [][ /\ last'.op = "destroy"
           => /\ handlers' = <<>>
              /\ observer' = "none" /\ ~pending'
              /\ processedItems' = [el \in Nodes |-> {}]
              /\ ~initialized'
        /\ \A k \in 1..Len(invoked') : ~invoked'[k].destroyed
        /\ observer = "none"
           => /\ observer' = "none" /\ ~pending'
              /\ last'.op = "insert" => UNCHANGED regVars ]_vars

\* reached: destroy() tore down a registry that held two handlers while a
\* node was in the document
C9_Witness ==
    /\ last.op = "destroy"
    /\ last.ret >= 2
    /\ inDoc # {}

(***************************************************************************)
(* Properties of the reconciler.                                           *)
(***************************************************************************)
\* what a reader of the native subtree sees: tags, attributes, text, and the
\* children in order
RECURSIVE structure(_)
structure(node) ==
    IF node.nodeType = 3 THEN [text |-> node.data]
    ELSE [tag |-> node.tagName, attributes |-> node.attributes, props |-> node.props,
          className |-> node.className, style |-> node.style,
          children |-> [i \in 1..Len(node.childNodes) |->
                           structure(node.childNodes[i])]]

\* C10: when the container holds the first render of a tree T, rendering T'
\* against T leaves the container's subtree structurally equal to the first
\* render of T' in a fresh container.
C10_PatchEqualsFreshRender ==
    [][\A newVTree \in VTrees :
          ( /\ render(newVTree)
            /\ truthy(prevVTree)
            /\ container = firstRender(prevVTree) )
          => structure(container')
               = structure(renderWithDiff(emptyContainer, newVTree, Null))]_vars

\* the call that produced `after` from `before` appended, inserted, removed
\* or replaced no native node: every node is still in its place, none is new
RECURSIVE noStructuralMutation(_, _)
noStructuralMutation(before, after) ==
    /\ ~after.fresh
    /\ after.nodeType = before.nodeType
    /\ after.nodeType = 1 =>
          /\ Len(after.childNodes) = Len(before.childNodes)
          /\ \A i \in 1..Len(after.childNodes) :
                noStructuralMutation(before.childNodes[i], after.childNodes[i])

\* C11: when the container holds the first render of T, rendering the same
\* tree T against T appends, inserts, removes and replaces no native node.
C11_IdenticalTreeNoMutation ==
    [][\A newVTree \in VTrees :
          ( /\ prevVTree = newVTree
            /\ container = firstRender(prevVTree)
            /\ render(newVTree) )
          => noStructuralMutation(container, rendered(newVTree))]_vars

\* what reading back a native subtree yields: tag, attributes and text, and
\* the children in order
RECURSIVE readBack(_)
readBack(node) ==
    IF node.nodeType = 3 THEN [text |-> node.data]
    ELSE [tag |-> node.tagName,
          attributes |-> [k \in DOMAIN node.attributes \cup DOMAIN node.props |->
                            IF k \in DOMAIN node.props THEN node.props[k]
                            ELSE node.attributes[k]],
          className |-> node.className,
          style |-> node.style,
          children |-> [i \in 1..Len(node.childNodes) |->
                           readBack(node.childNodes[i])]]

\* the tag, attribute and text structure a virtual tree describes: strings and
\* numbers are text, a TEXT_NODE vnode is the text of its child, null entries
\* are no node, the on-prefixed keys are bindings and no attributes
RECURSIVE described(_)
described(vnode) ==
    IF vnode.t \in {"str", "num"} THEN [text |-> String(vnode)]
    ELSE IF vnode.tag = "TEXT_NODE" THEN [text |-> String(firstChildOrEmpty(vnode))]
    ELSE LET present == SelectSeq(vnode.children, LAMBDA c : c.t # "null")
             plain == {k \in DOMAIN vnode.attrs :
                          k \notin {"className", "style"} /\ ~startsWithOn(k)}
         IN [tag |-> vnode.tag,
             attributes |-> [k \in plain |-> String(vnode.attrs[k])],
             className |-> IF "className" \in DOMAIN vnode.attrs
                           THEN String(vnode.attrs["className"]) ELSE "",
             style |-> IF "style" \in DOMAIN vnode.attrs /\ vnode.attrs["style"].t = "obj"
                       THEN vnode.attrs["style"].v ELSE EmptyMap,
             children |-> [i \in 1..Len(present) |-> described(present[i])]]

\* C12: the first render of a tree T into a container leaves one native
\* child whose tags, attributes and text, read back, are those T describes.
C12_FirstRenderRoundTrip ==
    [][\A newVTree \in VTrees :
          ( /\ ~truthy(prevVTree)
            /\ prevVTree' = newVTree
            /\ render(newVTree) )
          => /\ Len(container'.childNodes) = 1
             /\ readBack(container'.childNodes[1]) = described(newVTree)]_vars

\* reached: the first render of a tree with a number, and an element that
\* has an attribute and a text child
C12_Witness ==
    /\ renders = 1
    /\ \E i, j \in 1..Len(prevVTree.children) :
          /\ prevVTree.children[i].t = "num"
          /\ prevVTree.children[j].t = "vnode"
          /\ DOMAIN prevVTree.children[j].attrs # {}
          /\ prevVTree.children[j].children # <<>>
    /\ Len(container.childNodes[1].childNodes) = 2

\* the virtual trees a and b are the same but for the text of exactly one leaf
RECURSIVE oneLeafApart(_, _)
oneLeafApart(a, b) ==
    IF a.t \in {"str", "num"} /\ b.t \in {"str", "num"} THEN String(a) # String(b)
    ELSE /\ a.t = "vnode" /\ b.t = "vnode"
         /\ a.tag = b.tag /\ a.attrs = b.attrs
         /\ Len(a.children) = Len(b.children)
         /\ \E i \in 1..Len(a.children) :
               /\ oneLeafApart(a.children[i], b.children[i])
               /\ \A j \in 1..Len(a.children) :
                     j # i => a.children[j] = b.children[j]

\* the nodes of a kind (1 element, 3 text) that the last call created and put
\* into the subtree
RECURSIVE countFresh(_, _)
RECURSIVE countFreshIn(_, _)
countFreshIn(nodes, kind) ==
    IF nodes = <<>> THEN 0
    ELSE countFresh(Head(nodes), kind) + countFreshIn(Tail(nodes), kind)
countFresh(node, kind) ==
    (IF node.fresh /\ node.nodeType = kind THEN 1 ELSE 0)
    + (IF node.nodeType = 1 THEN countFreshIn(node.childNodes, kind) ELSE 0)

\* C13: when the container holds the first render of T and T' differs from T
\* in the text of exactly one leaf, rendering T' against T changes the text
\* at that leaf by one text mutation and inserts, replaces and removes no
\* element.
C13_OneLeafOneTextMutation ==
    [][\A newVTree \in VTrees :
          ( /\ truthy(prevVTree)
            /\ oneLeafApart(newVTree, prevVTree)
            /\ container = firstRender(prevVTree)
            /\ render(newVTree) )
          => /\ Len(container'.childNodes) = 1
             /\ readBack(container'.childNodes[1]) = described(newVTree)
             /\ countFresh(rendered(newVTree), 3) = 1
             /\ countFresh(rendered(newVTree), 1) = 0]_vars

\* a vnode that stands for an element, not for a text
isElementVNode(node) == node.t = "vnode" /\ node.tag # "TEXT_NODE"

\* vnode.attrs declares an explicit key
declaresKey(vnode) == "key" \in DOMAIN vnode.attrs

\* C14: for element vnodes a and b, hasChanged(a, b) is true exactly when the
\* tags differ, or both declare a key and the keys differ; other attributes
\* never matter.
C14_HasChangedOnElements ==
    ( /\ call.op = "hasChanged" /\ call.done
      /\ isElementVNode(call.args[1]) /\ isElementVNode(call.args[2]) )
    => LET a == call.args[1]
           b == call.args[2]
       IN call.result =
             ( \/ a.tag # b.tag
               \/ /\ a.tag = b.tag
                  /\ declaresKey(a) /\ declaresKey(b)
                  /\ a.attrs["key"] # b.attrs["key"] )

\* reached: hasChanged answered true for two vnodes of one tag with different
\* keys, one of them with another attribute
C14_Witness ==
    /\ call.op = "hasChanged" /\ call.done /\ call.result = TRUE
    /\ isElementVNode(call.args[1]) /\ isElementVNode(call.args[2])
    /\ call.args[1].tag = call.args[2].tag
    /\ declaresKey(call.args[1]) /\ declaresKey(call.args[2])
    /\ "id" \in DOMAIN call.args[1].attrs /\ "id" \notin DOMAIN call.args[2].attrs

\* element vnodes of one tag that both declare no key, or declare the same key
sameLogicalNode(a, b) ==
    /\ a.t = "vnode" /\ b.t = "vnode"
    /\ a.tag # "TEXT_NODE" /\ a.tag = b.tag
    /\ \/ ~declaresKey(a) /\ ~declaresKey(b)
       \/ declaresKey(a) /\ declaresKey(b) /\ a.attrs["key"] = b.attrs["key"]

\* the native node `before` was compared through newVNode and oldVNode and
\* became `after`: it is the node that was there, and so is every child that
\* was compared through a pair of vnodes of the same logical node
RECURSIVE keepsIdentity(_, _, _, _)
keepsIdentity(before, after, newVNode, oldVNode) ==
    /\ ~after.fresh
    /\ after.nodeType = before.nodeType
    /\ before.nodeType = 1 =>
          /\ after.tagName = before.tagName
          /\ \A i \in 1..Len(before.childNodes) :
                ( /\ i <= Len(newVNode.children) /\ i <= Len(oldVNode.children)
                  /\ sameLogicalNode(newVNode.children[i], oldVNode.children[i]) )
                => /\ i <= Len(after.childNodes)
                   /\ keepsIdentity(before.childNodes[i], after.childNodes[i],
                                    newVNode.children[i], oldVNode.children[i])

C17_FaultRebuildsLocally ==
    ( /\ call.op = "patchChildren" /\ call.done
      /\ reconcile(call.args[1], call.args[2], call.args[3]).thrown )
    => LET present == SelectSeq(call.args[2], LAMBDA c : c.t # "null")
           nodes == call.result.childNodes
       IN /\ ~call.result.thrown
          /\ Len(nodes) = Len(present)
          /\ \A i \in 1..Len(nodes) :
                nodes[i].fresh /\ readBack(nodes[i]) = described(present[i])

C19_IdenticalValuesNotWritten ==
    (call.op = "updateAttributes" /\ call.done)
    => LET element == call.args[1]
           newAttrs == call.args[2]
           oldAttrs == call.args[3]
           same == {key \in DOMAIN newAttrs \cap DOMAIN oldAttrs :
                       identical(newAttrs[key], oldAttrs[key])}
       IN /\ call.result.writes \cap same = {}
          /\ (DOMAIN newAttrs = same /\ DOMAIN oldAttrs = same)
                => call.result = element

\* reached: updateAttributes with the same id and the same style object and
\* another class name wrote the class name alone
C19_Witness ==
    /\ call.op = "updateAttributes" /\ call.done
    /\ {"id", "style"} \subseteq DOMAIN call.args[2] \cap DOMAIN call.args[3]
    /\ identical(call.args[2]["id"], call.args[3]["id"])
    /\ identical(call.args[2]["style"], call.args[3]["style"])
    /\ call.result.writes = {"className"}

\* C20: when the old and the new attributes both hold a style mapping, every
\* style property of the old mapping that the new one does not mention keeps
\* its value on the element; while the new attributes hold the style key,
\* no style property of the element goes away.
C20_StyleMergeKeeps ==
    ( /\ call.op = "updateAttributes" /\ call.done
      /\ "style" \in DOMAIN call.args[2] )
    => LET element == call.args[1]
           newAttrs == call.args[2]
           oldAttrs == call.args[3]
       IN /\ DOMAIN element.style \subseteq DOMAIN call.result.style
          /\ "style" \in DOMAIN oldAttrs =>
                \A p \in DOMAIN oldAttrs["style"].v \ DOMAIN newAttrs["style"].v :
                    call.result.style[p] = oldAttrs["style"].v[p]

\* reached: an element styled with a color and a width was updated to a style
\* that mentions the color alone; the width is still there
C20_Witness ==
    /\ call.op = "updateAttributes" /\ call.done
    /\ "style" \in DOMAIN call.args[2] /\ "style" \in DOMAIN call.args[3]
    /\ DOMAIN call.args[3]["style"].v = {"color", "width"}
    /\ DOMAIN call.args[2]["style"].v = {"color"}
    /\ call.result.style = [p \in {"color", "width"} |->
                               IF p = "color" THEN "blue" ELSE "1px"]

\* C21: setAttribute with an on-prefixed key and a function registers a
\* handler for the event in the delegation registry and writes nothing to the
\* element.
C21_OnKeyBoundThroughRegistry ==
    ( /\ call.op = "setAttribute" /\ call.done
      /\ startsWithOn(call.args[2]) /\ typeof(call.args[3]) = "function" )
    => /\ call.result.writes = {}
       /\ call.result.on = call.args[1].on
       /\ \E i \in 1..Len(handlers) : handlers[i].event = "click"

\* the native children a list of children stands for: none for null and
\* for an unsupported entry, one for a string, a number or an element vnode,
\* those of its entries for a nested array
RECURSIVE nativeCount(_)
nativeCount(children) ==
    IF children = <<>> THEN 0
    ELSE LET child == Head(children) IN
         (CASE child.t \in {"str", "num", "vnode"} -> 1
            [] child.t = "arr" -> nativeCount(child.v)
            [] OTHER -> 0)
         + nativeCount(Tail(children))

\* C22: the materialization of an element vnode throws for no shape of a
\* child: null is skipped, a nested array gives its entries in order, a
\* string or a number a text node, any other entry nothing.
C22_ChildShapesNeverThrow ==
    (call.op = "createFromVNode" /\ call.done)
    => /\ call.result # Failure
       /\ Len(call.result.childNodes) = nativeCount(call.args[1].children)

\* the lists of the scenario: no item, the item A, the items B and A
emptyList == h("ul", EmptyMap, <<>>)
listA == h("ul", EmptyMap, <<h("li", EmptyMap, <<Str("A")>>)>>)
listBA == h("ul", EmptyMap, <<h("li", EmptyMap, <<Str("B")>>),
                             h("li", EmptyMap, <<Str("A")>>)>>)

\* the container once the empty list is rendered and then the list of A
\* against it
renderedListA == settled(renderWithDiff(firstRender(emptyList), listA, emptyList))

\* C16: from the rendered empty list, rendering [A] appends one node, the
\* item A, and creates, removes and replaces nothing else; rendering [B, A]
\* next keeps the element at index 0 and makes its content B, and appends
\* one node, the item A, at index 1.
C16_ListScenario ==
    [][/\ ( /\ prevVTree = emptyList
            /\ settled(container) = firstRender(emptyList)
            /\ prevVTree' = listA
            /\ renderList(listA) )
          => LET list == container'.childNodes[1]
             IN /\ Len(container'.childNodes) = 1
                /\ ~list.fresh
                /\ Len(list.childNodes) = 1
                /\ list.childNodes[1].fresh
                /\ readBack(list.childNodes[1]) = described(listA.children[1])
                /\ countFresh(container', 1) = 1
       /\ ( /\ prevVTree = listA
            /\ settled(container) = renderedListA
            /\ prevVTree' = listBA
            /\ renderList(listBA) )
          => LET list == container'.childNodes[1]
             IN /\ Len(container'.childNodes) = 1
                /\ ~list.fresh
                /\ Len(list.childNodes) = 2
                /\ ~list.childNodes[1].fresh
                /\ readBack(list.childNodes[1]) = described(listBA.children[1])
                /\ list.childNodes[2].fresh
                /\ readBack(list.childNodes[2]) = described(listBA.children[2])
                /\ countFresh(container', 1) = 1]_vars

\* reached: the third render of the scenario kept the element at index 0,
\* replaced its text by B and appended the item A
C16_Witness ==
    /\ renders = 3
    /\ prevVTree = listBA
    /\ LET list == container.childNodes[1]
       IN /\ ~list.fresh
          /\ Len(list.childNodes) = 2
          /\ ~list.childNodes[1].fresh
          /\ list.childNodes[1].childNodes[1].fresh
          /\ list.childNodes[1].childNodes[1].data = "B"
          /\ list.childNodes[2].fresh
          /\ list.childNodes[2].childNodes[1].data = "A"

(***************************************************************************)
(* Properties of two registries on one document.                           *)
(***************************************************************************)
\* the other instance of the pair
otherRegistry(r) == CHOOSE q \in Registries : q # r

\* C23: onEvent, removeEvent and destroy on one registry change neither the
\* callbacks of the other registry that a click on any node invokes, nor the
\* id the other registry hands out next.
C23_RegistriesDoNotInterfere ==
    [][ \A r \in Registries :
          ( /\ peers'.last.on = r
            /\ peers'.last.op \in {"onEvent", "removeEvent", "destroy"} )
          => LET q == otherRegistry(r)
             IN  /\ \A el \in Nodes :
                       peerDispatched(peers', q, el) = peerDispatched(peers, q, el)
                 /\ Len(peers'.regs[q].handlers) = Len(peers.regs[q].handlers)
      ]_vars

\* the same, for the copy of the class in src/src/dom.js alone
C23_NoInterferenceWithAddEventListener ==
    [][ peers.build = "src/dom.js" =>
        \A r \in Registries :
          ( /\ peers'.last.on = r
            /\ peers'.last.op \in {"onEvent", "removeEvent", "destroy"} )
          => LET q == otherRegistry(r)
             IN  /\ \A el \in Nodes :
                       peerDispatched(peers', q, el) = peerDispatched(peers, q, el)
                 /\ Len(peers'.regs[q].handlers) = Len(peers.regs[q].handlers)
      ]_vars

\* a primitive or a TEXT_NODE vnode
isTextNode(node) == typeof(node) \in {"string", "number"} \/ isTextVNode(node)

\* the text a text node shows
textOf(node) ==
    IF isTextVNode(node) THEN String(firstChildOrEmpty(node)) ELSE String(node)

\* C24: hasChanged(a, b) is true whenever exactly one of a, b is a text node
\* (a primitive or a TEXT_NODE vnode, the empty one made from null included)
\* and the other an element vnode, and whenever both are text nodes with
\* different text.
C24_HasChangedOnTexts ==
    (call.op = "hasChanged" /\ call.done)
    => LET a == call.args[1]
           b == call.args[2]
       IN /\ (isTextNode(a) /\ isElementVNode(b)) => call.result = TRUE
          /\ (isElementVNode(a) /\ isTextNode(b)) => call.result = TRUE
          /\ (isTextNode(a) /\ isTextNode(b) /\ textOf(a) # textOf(b))
                => call.result = TRUE

\* the same without the empty text: a text that is not empty against an
\* element, and two texts that differ
C24_NonEmptyTextAgainstElement ==
    (call.op = "hasChanged" /\ call.done)
    => LET a == call.args[1]
           b == call.args[2]
       IN /\ (isTextNode(a) /\ textOf(a) # "" /\ isElementVNode(b))
                => call.result = TRUE
          /\ (isElementVNode(a) /\ isTextNode(b) /\ textOf(b) # "")
                => call.result = TRUE
          /\ (isTextNode(a) /\ isTextNode(b) /\ textOf(a) # textOf(b))
                => call.result = TRUE

\* how often x occurs in the sequence s
occurrences(s, x) == Cardinality({i \in 1..Len(s) : s[i] = x})

\* C25: a callback that calls removeEvent during a dispatch never makes the
\* dispatch skip a remaining handler: every matching handler that is still
\* registered when the dispatch ends has been invoked exactly once.
C25_RemovalDuringDispatchSkipsNone ==
    (call.op = "domListener" /\ call.done)
    => \A i \in 1..Len(call.result.handlers) :
          matches(call.args[2], call.result.handlers[i].selector)
          => occurrences(call.result.invoked, call.result.handlers[i].id) = 1

\* the same when no callback removes a handler
C25_DispatchWithoutRemoval ==
    ( /\ call.op = "domListener" /\ call.done
      /\ \A i \in 1..Len(call.args[1]) :
            call.args[1][i].removes = -1 /\ ~malformed(call.args[1][i].selector) )
    => \A i \in 1..Len(call.result.handlers) :
          matches(call.args[2], call.result.handlers[i].selector)
          => occurrences(call.result.invoked, call.result.handlers[i].id) = 1

\* C26: whenever the element-seen set records event type e for node n, n
\* carries a native listener for e that this registry attached.
C26_SeenImpliesListener ==
    \A el \in Nodes : \A event \in processedItems[el] :
        elListeners[<<el, event>>] >= 1

\* C27: the observation root was missing at construction; at the moment it
\* becomes available every handler registered before is bound to the nodes
\* its selector matches, without a further insertion.
C27_PendingBoundWhenRootAppears ==
    last.op = "DOMContentLoaded"
    => \A i \in 1..Len(handlers) : \A el \in inDoc :
          (handlers[i].event \in domEvents /\ matches(el, handlers[i].selector))
          => elListeners[<<el, handlers[i].event>>] >= 1

\* a handler of global scope: a global event type with the global sentinel
globalScope(handler) ==
    handler.event \in winOrDocEvents /\ handler.selector \in {"window", "document"}

\* C28: on a tree-growth notification with inserted nodes, bind is re-run for
\* every handler that is not of global scope, the handlers that combine a
\* global event type with an ordinary selector included: afterwards every
\* node the selector matches carries a listener for the handler's event.
C28_RebindAllButGlobalScope ==
    (call.op = "observer" /\ call.done)
    => \A i \in 1..Len(call.result.handlers) :
          LET handler == call.result.handlers[i] IN
          ~globalScope(handler)
          => \A el \in call.args[2] :
                matches(el, handler.selector)
                => call.result.elListeners[<<el, handler.event>>] >= 1

\* the same for the handlers of element event types alone
C28_RebindElementEvents ==
    (call.op = "observer" /\ call.done)
    => \A i \in 1..Len(call.result.handlers) :
          LET handler == call.result.handlers[i] IN
          handler.event \in domEvents
          => \A el \in call.args[2] :
                matches(el, handler.selector)
                => call.result.elListeners[<<el, handler.event>>] >= 1

\* C29: after destroy(), a handler registered later is bound to the matching
\* nodes present at registration and re-bound to the nodes inserted
\* afterwards: once the host has delivered its notifications, every node in
\* the document that the handler's selector matches carries a listener.
C29_RebindAfterDestroy ==
    (~initialized /\ ~pending)
    => \A i \in 1..Len(handlers) : \A el \in inDoc :
          (handlers[i].event \in domEvents /\ matches(el, handlers[i].selector))
          => elListeners[<<el, handlers[i].event>>] >= 1

\* the native node stands for the entry of a children list: a text leaf with
\* the entry's text (the empty text for null), or an element of the entry's tag
correspondsTo(node, child) ==
    IF isElementVNode(child)
    THEN node.nodeType = 1 /\ node.tagName = Element(child.tag).tagName
    ELSE node.nodeType = 3 /\ node.data = textOf(normalizeChild(child))

\* C30: after any sequence of renderWithDiff calls the i-th native child of
\* the rendered element corresponds to the i-th entry of the children list of
\* the tree rendered last, null entries included.
C30_ChildrenAlignedByIndex ==
    truthy(prevVTree)
    => /\ Len(container.childNodes) = 1
       /\ LET root == container.childNodes[1] IN
          /\ Len(root.childNodes) = Len(prevVTree.children)
          /\ \A i \in 1..Len(root.childNodes) :
                correspondsTo(root.childNodes[i], prevVTree.children[i])

\* the element shows no trace of the key: what updateAttributes leaves of a
\* key it has reset
isReset(element, key) ==
    IF key = "className" THEN element.className = ""
    ELSE IF key \in {"checked", "disabled", "selected"}
    THEN key \in DOMAIN element.props /\ element.props[key] = "false"
    ELSE IF startsWithOn(key)
    THEN /\ toLowerCase(key) \in DOMAIN element.on
         /\ element.on[toLowerCase(key)] = Null
    ELSE /\ key \notin DOMAIN element.attributes
         /\ inElement(key) => key \notin DOMAIN element.props
         /\ key = "style" => element.style = EmptyMap

\* the element holds the value for the key
holdsValue(element, key, value) ==
    IF key = "className" THEN element.className = String(value)
    ELSE IF startsWithOn(key) THEN element.on[toLowerCase(key)] = value
    ELSE IF key = "style"
    THEN \A p \in DOMAIN value.v : element.style[p] = value.v[p]
    ELSE IF inElement(key) THEN element.props[key] = String(value)
    ELSE element.attributes[key] = String(value)

\* C31: updateAttributes resets every key of oldAttrs that newAttrs lacks
\* (class name empty, checked/disabled/selected false, the listener of an
\* on-prefixed key unbound, any other key's attribute removed), and resets
\* no key of newAttrs: the element holds the new value of each of them.
C31_DroppedKeysReset ==
    (call.op = "updateAttributes" /\ call.done)
    => LET newAttrs == call.args[2]
           oldAttrs == call.args[3]
       IN /\ \A key \in DOMAIN oldAttrs \ DOMAIN newAttrs :
                isReset(call.result, key)
          /\ \A key \in DOMAIN newAttrs :
                holdsValue(call.result, key, newAttrs[key])

\* reached: an element that had a class name, a handler, checked, a title, a
\* key and a style was updated to the title alone
C31_Witness ==
    /\ call.op = "updateAttributes" /\ call.done
    /\ DOMAIN call.args[3] = {"className", "onClick", "checked", "title", "key", "style"}
    /\ DOMAIN call.args[2] = {"title"}
    /\ call.result.className = ""
    /\ call.result.props["checked"] = "false"
    /\ call.result.props["title"] = "t"
    /\ call.result.on["onclick"] = Null
    /\ "key" \notin DOMAIN call.result.attributes
    /\ call.result.style = EmptyMap

\* C32: patch(parent, newVNode, null, index) materializes newVNode and
\* inserts it at position index, before the node that was there, or appends
\* it when parent has no child at index; no existing child is removed or
\* replaced.
C32_PatchInsertsAtIndex ==
    ( /\ call.op = "patch" /\ call.done
      /\ call.args[3] = Null /\ call.args[2] # Null )
    => LET before == call.args[1].childNodes
           after  == call.result.childNodes
           at     == IF call.args[4] + 1 <= Len(before)
                     THEN call.args[4] + 1 ELSE Len(before) + 1
       IN /\ Len(after) = Len(before) + 1
          /\ after[at] = createFromVNode(call.args[2])
          /\ \A j \in 1..Len(before) :
                before[j] = after[IF j < at THEN j ELSE j + 1]
          /\ [call.result EXCEPT !.childNodes = before] = call.args[1]

\* reached: a text was inserted at index 1 between two children
C32_Witness ==
    /\ call.op = "patch" /\ call.done /\ call.args[3] = Null
    /\ call.args[4] = 1 /\ Len(call.args[1].childNodes) = 2
    /\ Len(call.result.childNodes) = 3
    /\ call.result.childNodes[1] = call.args[1].childNodes[1]
    /\ call.result.childNodes[2].nodeType = 3
    /\ call.result.childNodes[2].fresh
    /\ call.result.childNodes[3] = call.args[1].childNodes[2]

\* C33: patch(parent, null, oldVNode, index) removes exactly the native child
\* at position index and changes nothing else in the native tree;
\* patch(parent, null, null, index) changes nothing at all.
C33_PatchRemovesAtIndex ==
    (call.op = "patch" /\ call.done /\ call.args[2] = Null)
    => LET before == call.args[1].childNodes
           after  == call.result.childNodes
           at     == call.args[4] + 1
       IN IF call.args[3] = Null THEN call.result = call.args[1]
          ELSE /\ [call.result EXCEPT !.childNodes = before] = call.args[1]
               /\ IF at <= Len(before)
                  THEN /\ Len(after) = Len(before) - 1
                       /\ \A j \in 1..Len(after) :
                             after[j] = before[IF j < at THEN j ELSE j + 1]
                  ELSE after = before

\* reached: the first of two different children was removed and the second
\* is now the only one
C33_Witness ==
    /\ call.op = "patch" /\ call.done
    /\ call.args[2] = Null /\ call.args[3] # Null /\ call.args[4] = 0
    /\ Len(call.args[1].childNodes) = 2
    /\ call.args[1].childNodes[1] # call.args[1].childNodes[2]
    /\ call.result.childNodes = <<call.args[1].childNodes[2]>>

\* two element vnodes of one tag that both declare a key, and the keys differ
keysDiffer(a, b) ==
    /\ isElementVNode(a) /\ isElementVNode(b) /\ a.tag = b.tag
    /\ declaresKey(a) /\ declaresKey(b)
    /\ a.attrs["key"] # b.attrs["key"]

\* C34: when keyed siblings are reordered, patchChildren moves no existing
\* native node to another position: every index whose key differs from the
\* old key at that index holds a fresh materialization of the new entry, and
\* every node that is not fresh sits at an index where the keys do not differ.
C34_KeysNeverRelocate ==
    (call.op = "patchChildren" /\ call.done /\ ~call.result.thrown)
    => LET newChildren == call.args[2]
           oldChildren == call.args[3]
           after == call.result.childNodes
       IN \A i \in 1..Len(newChildren) :
             (i <= Len(oldChildren) /\ keysDiffer(newChildren[i], oldChildren[i]))
             => /\ i <= Len(after)
                /\ after[i] = createFromVNode(newChildren[i])
                /\ after[i].fresh

\* reached: [k1, k2] was patched to [k2, k1]; both native nodes are fresh, the
\* first with the text of k2 and the second with the text of k1
C34_Witness ==
    /\ call.op = "patchChildren" /\ call.done
    /\ Len(call.args[2]) = 2 /\ Len(call.args[3]) = 2
    /\ keysDiffer(call.args[2][1], call.args[3][1])
    /\ keysDiffer(call.args[2][2], call.args[3][2])
    /\ call.args[2][1] = call.args[3][2] /\ call.args[2][2] = call.args[3][1]
    /\ Len(call.result.childNodes) = 2
    /\ call.result.childNodes[1].fresh /\ call.result.childNodes[2].fresh
    /\ call.result.childNodes[1].childNodes[1].data = "B"
    /\ call.result.childNodes[2].childNodes[1].data = "A"

\* C35: a handler whose selector is malformed (its bind failed and was only
\* logged) never prevents other handlers from running: on a native event
\* every live handler with a valid selector that matches the node is invoked.
C35_MalformedSelectorIsolated ==
    ( /\ call.op = "domListener" /\ call.done
      /\ \A i \in 1..Len(call.args[1]) : call.args[1][i].removes = -1 )
    => \A i \in 1..Len(call.args[1]) :
          ( /\ ~malformed(call.args[1][i].selector)
            /\ matches(call.args[2], call.args[1][i].selector) )
          => occurrences(call.result.invoked, call.args[1][i].id) = 1

\* C36: global-scope handlers registered for one global event type are each
\* invoked exactly once per occurrence of the event, also after removeEvent
\* of another of them, which detaches only its own listener.
C36_GlobalHandlersIndependent ==
    (call.op = "globalEvent" /\ call.done)
    => \A i \in 1..Len(call.result.handlers) :
          occurrences(call.result.invoked, call.result.handlers[i].callback) = 1

\* the same for the copy of the class in src/src/dom.js alone
C36_IndependentWithAddEventListener ==
    (call.op = "globalEvent" /\ call.done /\ call.args[1] = "src/dom.js")
    => \A i \in 1..Len(call.result.handlers) :
          occurrences(call.result.invoked, call.result.handlers[i].callback) = 1

\* C37: after the reconciler has removed or replaced a native node and the
\* registry has been notified, the bound-listeners bookkeeping of every live
\* handler references only nodes that are part of the native tree.
C37_BookkeepingWithinTree ==
    (call.op = "removeNode" /\ call.done)
    => \A i \in 1..Len(call.result.registry.handlers) :
          call.result.registry.handlers[i].domListeners \subseteq call.result.doc

Next ==
    \/ OnEvent
    \/ RemoveEvent
    \/ Destroy
    \/ InsertNode
    \/ ObserverCallback
    \/ DomContentLoaded
    \/ Fire
    \/ FireGlobal

Spec == Init /\ [][Next]_vars

\* the application rendering into its container
NextDom == Render

\* the document has a body: the application has a container to render into
InitRender == Init /\ ~dclHook

NextList == RenderList

SpecList == InitRender /\ [][NextList]_vars

SpecDom == InitRender /\ [][NextDom]_vars

\* direct calls of the static methods
InitCalls ==
    /\ InitEvent /\ ~dclHook
    /\ InitDom
    /\ peers = NoPeers
    /\ call \in HasChangedCalls \cup HasChangedTextCalls \cup PatchChildrenCalls
                \cup DomListenerCalls \cup ObserverCalls \cup ResetCalls
                \cup PatchCalls \cup MalformedCalls \cup GlobalEventCalls
                \cup RemoveNodeCalls \cup RenderWithDiffCalls
                \cup UpdateAttributesCalls \cup SetAttributeCalls
                \cup CreateFromVNodeCalls

NextCalls ==
    \/ CallHasChanged
    \/ CallPatchChildren
    \/ CallRenderWithDiff
    \/ CallUpdateAttributes
    \/ CallSetAttribute
    \/ CallCreateFromVNode
    \/ CallDomListener
    \/ CallObserver
    \/ callPatch
    \/ callGlobalEvent
    \/ callRemoveNode

SpecCalls == InitCalls /\ [][NextCalls]_vars

\* two instances of either copy of class Event on one document
InitTwo ==
    /\ InitEvent /\ ~dclHook
    /\ InitDom
    /\ call = NoCall
    /\ peers \in {newPeers(b) : b \in Builds}

NextTwo ==
    \/ PeerOnEvent
    \/ PeerRemoveEvent
    \/ PeerDestroy
    \/ PeerFire

SpecTwo == InitTwo /\ [][NextTwo]_vars

====
